---- MODULE Spec2Model ----
(***************************************************************************)
(* Verification model of LOOPAVGER (Respiratory Data Processor).           *)
(*                                                                         *)
(* The flow-volume averaging engine (src/fvavg.py, src/time_bins.py,       *)
(* src/volume_bins.py) is modelled as a pipeline of whole-function steps   *)
(* over one recording.  Python floats are modelled as exact rationals      *)
(* <<numerator, denominator>> in lowest terms with a positive denominator; *)
(* floating rounding is outside the model.  Python list indexing is kept:  *)
(* a negative index counts from the end of the list and an index outside   *)
(* the list raises IndexError.                                             *)
(***************************************************************************)
EXTENDS Integers, Sequences, FiniteSets, TLC

(***************************************************************************)
(* Bounds of the model.                                                    *)
(***************************************************************************)
\* largest number of constant-sign runs of a recording
MaxRuns == 6
\* largest number of bins K ("intervals")
MaxK == 4

(***************************************************************************)
(* Program constants of find_zero_flow_points.                             *)
(***************************************************************************)
\* forward check: range(1, 31) looks at 30 samples after i + 1
FwdWindow == 30
\* backward check: range(41, 61) looks at samples i - 41 .. i - 60
BackNear == 41
BackFar == 60
\* back_track = back_track / 20
BackDivisor == 20
\* the volume nudge 0.001 of a synthetic point, as 1 / NudgeDen
NudgeDen == 1000

(***************************************************************************)
(* Exact rational arithmetic.                                              *)
(***************************************************************************)
\* the element of a one-element set; {F(x) : x \in {e}} computes e once
Only(S) == CHOOSE x \in S : TRUE

Abs(x) == IF x < 0 THEN -x ELSE x

RECURSIVE Gcd(_, _)
Gcd(a, b) == IF b = 0 THEN a ELSE Gcd(b, a % b)

Norm(n, d) ==
    LET s == IF d < 0 THEN -1 ELSE 1
        g == Gcd(Abs(n), Abs(d))
    IN  <<(s * n) \div g, (s * d) \div g>>

Q(x) == <<x, 1>>
Zero == Q(0)
RAdd(a, b) ==
    LET g == Gcd(a[2], b[2])
    IN  Norm(a[1] * (b[2] \div g) + b[1] * (a[2] \div g), a[2] * (b[2] \div g))
RNeg(a) == <<-a[1], a[2]>>
RSub(a, b) == RAdd(a, RNeg(b))
RMul(a, b) ==
    LET g1 == Gcd(Abs(a[1]), b[2])
        g2 == Gcd(Abs(b[1]), a[2])
    IN  IF a[1] = 0 \/ b[1] = 0 THEN Zero
        ELSE Norm((a[1] \div g1) * (b[1] \div g2), (a[2] \div g2) * (b[2] \div g1))
\* b # 0
RDiv(a, b) == RMul(a, Norm(b[2], b[1]))
\* denominators are positive
RLt(a, b) == a[1] * b[2] < b[1] * a[2]
RAbs(a) == <<Abs(a[1]), a[2]>>
RMin(a, b) == IF RLt(b, a) THEN b ELSE a
RMax(a, b) == IF RLt(a, b) THEN b ELSE a
Nudge == <<1, NudgeDen>>

\* the sum of the first n elements of a list of integers
RECURSIVE ISumTo(_, _)
ISumTo(s, n) == IF n = 0 THEN 0 ELSE ISumTo(s, n - 1) + s[n]


(***************************************************************************)
(* Recordings.  A recording is a sequence of constant-sign runs of flow    *)
(* (-1 or 1), the sign alternating from run to run, sampled with period    *)
(* dt; the volume is the cumulative integral of the flow from 0.           *)
(***************************************************************************)
\* the sampling period 0.01 s of the ingested files, as 1 / PeriodDen
PeriodDen == 100
SamplePeriod == <<1, PeriodDen>>
\* a single sample between two sign changes ("chatter")
ShortRun == 1
\* the shortest run that passes the forward check of the crossing before it
MidRun == FwdWindow + 1
\* a run that holds the whole backward window of the crossing after it
LongRun == BackFar + 2
RunLens == {ShortRun, MidRun, LongRun}
\* the runs of the 16-sample scenario recording -1 x4, 1 x4, -1 x4, 1 x4
ScenarioRuns == <<4, 4, 4, 4>>
\* a recording of two complete breaths of different depth between a
\* leading expiration and a trailing inspiration
TwoBreathRuns ==
    <<LongRun, LongRun, LongRun, LongRun + MidRun, LongRun + MidRun, MidRun>>
\* the recordings: every sequence of at most MaxRuns runs at the sampling
\* period of the files, the two-breath recording, and the scenario
\* recording with time step 1
Recordings ==
    {[runs |-> r, dt |-> SamplePeriod] :
        r \in UNION {[1..n -> RunLens] : n \in 1..MaxRuns} \cup {TwoBreathRuns}}
    \cup {[runs |-> ScenarioRuns, dt |-> Q(1)]}

RECURSIVE FlowOfRuns(_, _)
FlowOfRuns(runs, sign) ==
    IF runs = <<>> THEN <<>>
    ELSE [k \in 1..Head(runs) |-> sign] \o FlowOfRuns(Tail(runs), -sign)

\* Time[k] = dt * (k + 1)
TimeOf(flow, dt) == [k \in 1..Len(flow) |-> Norm(dt[1] * k, dt[2])]

\* vol[0] = 0, vol[i] = vol[i - 1] + flow[i - 1] * dt
RECURSIVE StepsOfRuns(_, _, _)
StepsOfRuns(runs, sign, start) ==
    IF runs = <<>> THEN <<>>
    ELSE [k \in 1..Head(runs) |-> start + sign * (k - 1)]
         \o StepsOfRuns(Tail(runs), -sign, start + sign * Head(runs))

VolOfRuns(runs, sign, dt) ==
    Only({[k \in 1..Len(steps) |-> Norm(dt[1] * steps[k], dt[2])] :
            steps \in {StepsOfRuns(runs, sign, 0)}})

(***************************************************************************)
(* Python list access: indices are 0-based, a negative index counts from   *)
(* the end, anything else raises IndexError.                               *)
(***************************************************************************)
InRange(s, k) == -Len(s) <= k /\ k < Len(s)
At(s, k) == IF k >= 0 THEN s[k + 1] ELSE s[Len(s) + k + 1]
Last(s) == s[Len(s)]

(***************************************************************************)
(* find_zero_flow_points                                                   *)
(***************************************************************************)
\* the forward loop reads flow[i + 1 + j] for j = 1..30: IndexError when
\* one of these is past the end of the list
ForwardOverrun(flow, i) == i + 1 + FwdWindow >= Len(flow)

\* counter == 30: the 30 samples after i + 1 all have the new sign
ForwardCheck(flow, i, newSign) ==
    \A j \in 1..FwdWindow : At(flow, i + 1 + j) * newSign > 0

\* back_track: the sum of flow[i - j] for j = 41..60; an index below 0 is
\* a Python negative index (read from the end of the list), and only an
\* index below -len raises the IndexError that is passed over
RECURSIVE BackTrackSum(_, _, _)
BackTrackSum(flow, i, j) ==
    IF j > BackFar THEN 0
    ELSE (IF InRange(flow, i - j) THEN At(flow, i - j) ELSE 0)
         + BackTrackSum(flow, i, j + 1)

BackTrack(flow, i) == Norm(BackTrackSum(flow, i, BackNear), BackDivisor)

\* StepKind without the forward and the backward check: every sign change
\* is a validated crossing
StepKind_Unchecked(flow, i) ==
    IF i + 1 >= Len(flow) THEN (IF At(flow, i) = 0 THEN "plain" ELSE "last")
    ELSE IF At(flow, i) < 0 /\ 0 < At(flow, i + 1) THEN "np"
    ELSE IF At(flow, i) > 0 /\ 0 > At(flow, i + 1) THEN "pn"
    ELSE "plain"

\* what iteration i of the loop does: "np" / "pn" a validated crossing,
\* "plain" the sample is appended, "last" the except IndexError branch
StepKind(flow, i) ==
    IF i + 1 >= Len(flow) THEN (IF At(flow, i) = 0 THEN "plain" ELSE "last")
    ELSE IF At(flow, i) < 0 /\ 0 < At(flow, i + 1)
         THEN IF ForwardOverrun(flow, i) THEN "last"
              ELSE IF ForwardCheck(flow, i, 1) /\ RLt(BackTrack(flow, i), Zero)
                   THEN "np" ELSE "plain"
    ELSE IF At(flow, i) > 0 /\ 0 > At(flow, i + 1)
         THEN IF ForwardOverrun(flow, i) THEN "last"
              ELSE IF ForwardCheck(flow, i, -1) /\ RLt(Zero, BackTrack(flow, i))
                   THEN "pn" ELSE "plain"
    ELSE "plain"

\* interpolated_time = t1 + ((0 - f1) / ((f2 - f1) / (t2 - t1)))
InterpolatedTime(t1, t2, f1, f2) ==
    RAdd(t1, RDiv(Q(0 - f1), RDiv(Q(f2 - f1), RSub(t2, t1))))

\* the guessed volume without the 0.001
InterpolatedVolume_Unnudged(kind, v1, v2) ==
    IF kind = "np" THEN RMin(v1, v2) ELSE RMax(v1, v2)

\* min_vol - 0.001 (negative to positive), max_vol + 0.001 (positive to negative)
InterpolatedVolume(kind, v1, v2) ==
    IF kind = "np" THEN RSub(RMin(v1, v2), Nudge)
    ELSE RAdd(RMax(v1, v2), Nudge)

\* kinds[i + 1] is StepKind at iteration i
StepKinds(flow) == [k \in 1..Len(flow) |-> StepKind(flow, k - 1)]

\* the sample appended at iteration i when no crossing is validated: sample
\* i, or the last sample of the recording in the except IndexError branch
Appended(list, kinds, i) == At(list, IF kinds[i + 1] = "last" THEN -1 ELSE i)

\* the indexes of the validated crossings
Crossings(flow) ==
    {i \in 0..(Len(flow) - 1) : StepKind(flow, i) \in {"np", "pn"}}

Min(S) == CHOOSE x \in S : \A y \in S : x <= y
Max(S) == CHOOSE x \in S : \A y \in S : y <= x

\* the first validated crossing at iteration i or later, Len(kinds) when
\* there is none
NextCrossing(kinds, i) ==
    LET ahead == {c \in i..(Len(kinds) - 1) : kinds[c + 1] \in {"np", "pn"}}
    IN  IF ahead = {} THEN Len(kinds) ELSE Min(ahead)

\* the iterations i .. stop - 1, none of them a validated crossing: each
\* appends one sample and adds 1 to phase_indexes
AppendPlain(time, vol, flow, kinds, i, stop, acc) ==
    [t |-> acc.t \o [k \in 1..(stop - i) |-> Appended(time, kinds, i + k - 1)],
     v |-> acc.v \o [k \in 1..(stop - i) |-> Appended(vol, kinds, i + k - 1)],
     f |-> acc.f \o [k \in 1..(stop - i) |-> Q(Appended(flow, kinds, i + k - 1))],
     pl |-> acc.pl,
     ph |-> acc.ph + (stop - i)]

\* a crossing that appends the synthetic zero-flow point once
AppendCrossing_OnePoint(time, vol, flow, kinds, c, acc) ==
    LET tz == InterpolatedTime(At(time, c), At(time, c + 1),
                               At(flow, c), At(flow, c + 1))
        vz == InterpolatedVolume(kinds[c + 1], At(vol, c), At(vol, c + 1))
    IN  [t |-> acc.t \o <<At(time, c), tz>>,
         v |-> acc.v \o <<At(vol, c), vz>>,
         f |-> acc.f \o <<Q(At(flow, c)), Zero>>,
         pl |-> Append(acc.pl, acc.ph + 2),
         ph |-> 1]

\* iteration c, a validated crossing: sample c and the synthetic zero-flow
\* point twice; phase_indexes + 2 is appended to the phase list and
\* phase_indexes restarts at 1
AppendCrossing(time, vol, flow, kinds, c, acc) ==
    LET tz == InterpolatedTime(At(time, c), At(time, c + 1),
                               At(flow, c), At(flow, c + 1))
        vz == InterpolatedVolume(kinds[c + 1], At(vol, c), At(vol, c + 1))
    IN  [t |-> acc.t \o <<At(time, c)>> \o [k \in 1..2 |-> tz],
         v |-> acc.v \o <<At(vol, c)>> \o [k \in 1..2 |-> vz],
         f |-> acc.f \o <<Q(At(flow, c)), Zero, Zero>>,
         pl |-> Append(acc.pl, acc.ph + 2),
         ph |-> 1]

\* the for loop from iteration i on
RECURSIVE FindLoop(_, _, _, _, _, _)
FindLoop(time, vol, flow, kinds, i, acc) ==
    Only({
        IF stop = Len(flow)
        THEN AppendPlain(time, vol, flow, kinds, i, stop, acc)
        ELSE Only({FindLoop(time, vol, flow, kinds, stop + 1, b) :
                b \in {AppendCrossing(time, vol, flow, kinds, stop, a) :
                         a \in {AppendPlain(time, vol, flow, kinds, i, stop, acc)}}})
        : stop \in {NextCrossing(kinds, i)}})

\* the returned lists t, v, f and the phase list pl; ph is the count of the
\* open phase, which is not returned
find_zero_flow_points(time, vol, flow) ==
    Only({FindLoop(time, vol, flow, kinds, 0,
                   [t |-> <<>>, v |-> <<>>, f |-> <<>>, pl |-> <<>>, ph |-> 0]) :
            kinds \in {StepKinds(flow)}})

(***************************************************************************)
(* trim_excess_data                                                        *)
(***************************************************************************)
Half == <<1, 2>>
IsZero(x) == x = Zero
IsNeg(x) == RLt(x, Zero)
IsPos(x) == RLt(Zero, x)

\* Leading loop.  With h samples already deleted the head of the list is
\* f[h] (0-based).  The loop ends at the first h where the head is 0 and
\* the element two places on is negative; it raises IndexError when the
\* head is 0 and there is no element two places on, or the list is empty.
LeadHalts(f) ==
    {h \in 0..(Len(f) - 1) :
        IsZero(At(f, h)) /\ (h + 2 >= Len(f) \/ IsNeg(At(f, h + 2)))}

\* the iterations before h that add 0.5 to counter_start
LeadCounted(f, h) ==
    {g \in 0..(h - 1) : IsZero(At(f, g)) /\ IsPos(At(f, g + 2))}

\* Trailing loop.  With the list cut to its first m elements, the loop ends
\* at the largest m where f[-3] is 0 and f[-1] is negative; f[-3] raises
\* IndexError once fewer than 3 elements are left.
TailHalts(f) ==
    {m \in 3..Len(f) : IsZero(At(f, m - 3)) /\ IsNeg(At(f, m - 1))}

\* the iterations before the end that add 0.5 to counter_end
TailCounted(f, m) ==
    {n \in (m + 1)..Len(f) : IsZero(At(f, n - 3)) /\ IsPos(At(f, n - 1))}

\* del phase_indexes_list[0] once or twice, del phase_indexes_list[-1]
DropLeading(pl, counter_start) ==
    IF counter_start = Q(1) THEN SubSeq(pl, 2, Len(pl))
    ELSE IF counter_start = Q(2) THEN SubSeq(pl, 3, Len(pl))
    ELSE pl

\* the number of entries the leading deletes need
LeadingNeeds(counter_start) ==
    IF counter_start = Q(1) THEN 1 ELSE IF counter_start = Q(2) THEN 2 ELSE 0

DropTrailing(pl, counter_end) ==
    IF counter_end = Q(1) THEN SubSeq(pl, 1, Len(pl) - 1) ELSE pl

IndexError == [error |-> "IndexError"]

\* trim_excess_data raises IndexError; the lists, which it changes in
\* place, are left as they are at that point
TrimRaises(t, v, f, pl) ==
    [error |-> "IndexError", t |-> t, v |-> v, f |-> f, pl |-> pl]

\* the phase adjustment and the returned values; the lists t1, v1, f1 are
\* those left by the leading loop and m - 3 samples of them are kept
TrimResult(t1, v1, f1, pl, counter_start, counter_end, m) ==
    IF Len(pl) < LeadingNeeds(counter_start)
       \/ (counter_end = Q(1) /\ DropLeading(pl, counter_start) = <<>>)
    THEN TrimRaises(SubSeq(t1, 1, m - 3), SubSeq(v1, 1, m - 3),
                    SubSeq(f1, 1, m - 3), <<>>)
    ELSE Only({[error |-> "",
                t |-> SubSeq(t1, 1, m - 3),
                v |-> SubSeq(v1, 1, m - 3),
                f |-> SubSeq(f1, 1, m - 3),
                pl |-> pl2,
                counter_start |-> counter_start,
                counter_end |-> counter_end,
                number_of_breaths |-> Len(pl2) \div 2] :
            pl2 \in {DropTrailing(DropLeading(pl, counter_start), counter_end)}})

\* the trailing loop on the lists left by the leading loop; when it never
\* halts it deletes until fewer than 3 samples are left
TrimTrailing(t1, v1, f1, pl, counter_start) ==
    Only({IF tail = {}
          THEN TrimRaises(SubSeq(t1, 1, 2), SubSeq(v1, 1, 2), SubSeq(f1, 1, 2), pl)
          ELSE Only({TrimResult(t1, v1, f1, pl, counter_start, counter_end, Max(tail)) :
                  counter_end \in
                      {RMul(Half, Q(Cardinality(TailCounted(f1, Max(tail)))))}})
          : tail \in {TailHalts(f1)}})

\* a leading loop that breaks without its delete_row
LeadingTrimmed_Undeleted(z, h) == SubSeq(z, h + 1, Len(z))

\* a list after the leading loop has halted at h: the h deletes of the else
\* branch and the delete_row before the break
LeadingTrimmed(z, h) == SubSeq(z, h + 2, Len(z))

\* the leading loop deletes h samples and the delete_row after it one more
TrimLeading(zt, zv, zf, pl, h) ==
    IF h + 2 >= Len(zf)
    THEN TrimRaises(SubSeq(zt, h + 1, Len(zt)), SubSeq(zv, h + 1, Len(zv)),
                    SubSeq(zf, h + 1, Len(zf)), pl)
    ELSE Only({TrimTrailing(t1, v1, f1, pl, counter_start) :
            t1 \in {LeadingTrimmed(zt, h)},
            v1 \in {LeadingTrimmed(zv, h)},
            f1 \in {LeadingTrimmed(zf, h)},
            counter_start \in
                {RAdd(Q(1), RMul(Half, Q(Cardinality(LeadCounted(zf, h)))))}})

\* when the leading loop never halts it deletes every sample
trim_excess_data(zt, zv, zf, pl) ==
    Only({IF lead = {} THEN TrimRaises(<<>>, <<>>, <<>>, pl)
          ELSE TrimLeading(zt, zv, zf, pl, Min(lead)) :
            lead \in {LeadHalts(zf)}})

(***************************************************************************)
(* process_time_bins                                                       *)
(***************************************************************************)
\* the list with the elements of s
AsList(s) == s \o <<>>

\* One phase peeled off the head of the lists: n samples, the times made
\* relative to the first one.
PeelPhase(t, v, f, n) ==
    [Time |-> AsList([k \in 1..n |-> RSub(t[k], t[1])]),
     Vol |-> SubSeq(v, 1, n),
     Flow |-> SubSeq(f, 1, n)]

\* zeroed_time_list[0] raises IndexError on an empty list, in the statement
\* before the loop or in the loop that peels n samples; Insp_Time[-1] raises
\* it when the phase is empty
PeelFails(t, n) == Len(t) = 0 \/ Len(t) < n \/ n = 0

\* the first loop of process_time_bins up to "Store original data", for the
\* breaths still to peel; at is the number of samples already peeled
RECURSIVE PeelBreaths(_, _, _, _, _, _)
PeelBreaths(t, v, f, pl, at, todo) ==
    IF todo = 0 THEN [error |-> "", breaths |-> <<>>]
    ELSE IF Len(pl) < 2 \/ PeelFails(SubSeq(t, at + 1, Len(t)), pl[1])
    THEN IndexError
    ELSE IF PeelFails(SubSeq(t, at + pl[1] + 1, Len(t)), pl[2])
    THEN IndexError
    ELSE Only({IF rest.error # "" THEN rest
               ELSE [error |-> "", breaths |-> <<breath>> \o rest.breaths] :
            breath \in
                {[insp |-> PeelPhase(SubSeq(t, at + 1, Len(t)),
                                     SubSeq(v, at + 1, Len(v)),
                                     SubSeq(f, at + 1, Len(f)), pl[1]),
                  exp |-> PeelPhase(SubSeq(t, at + pl[1] + 1, Len(t)),
                                    SubSeq(v, at + pl[1] + 1, Len(v)),
                                    SubSeq(f, at + pl[1] + 1, Len(f)), pl[2])]},
            rest \in
                {PeelBreaths(t, v, f, SubSeq(pl, 3, Len(pl)),
                             at + pl[1] + pl[2], todo - 1)}})

\* incr = Tt / intervals; the targets incr * j for j = 0..intervals
TimeIntervals(Tt, K) ==
    AsList([j \in 1..(K + 1) |-> RMul(RDiv(Tt, Q(K)), Q(j - 1))])

\* v1 + ((v2 - v1) / (t2 - t1)) * (A - t1)
Interpolate(t1, t2, y1, y2, A) ==
    RAdd(y1, RMul(RDiv(RSub(y2, y1), RSub(t2, t1)), RSub(A, t1)))

\* Time[l] < A < Time[l + 1], for 1-based l below the last index
TimeBracket(T, l, A) == l < Len(T) /\ RLt(T[l], A) /\ RLt(A, T[l + 1])

\* the first l in list order that brackets A strictly, 0 when none does
TimeHit(T, A) ==
    Only({IF hits = {} THEN 0 ELSE Min(hits) :
            hits \in {{l \in 1..Len(T) : TimeBracket(T, l, A)}}})

\* The inner loop over l for one target A: the <<volume, flow>> entries it
\* appends.  A == 0 gives the first sample; otherwise the first l in list
\* order that brackets A strictly gives the interpolation, unless A equals
\* the last time and l = 0 does not bracket it, which gives the last sample;
\* at the last l, Time[l] < A makes Time[l + 1] raise IndexError and the
\* except branch appends sample l.  When no branch applies nothing is
\* appended.
TimeEntries(ph, A) ==
    IF A = Zero THEN <<<<ph.Vol[1], ph.Flow[1]>>>>
    ELSE Only({
        IF l > 0 /\ (A # Last(ph.Time) \/ l = 1)
        THEN <<<<Interpolate(ph.Time[l], ph.Time[l + 1], ph.Vol[l], ph.Vol[l + 1], A),
                 Interpolate(ph.Time[l], ph.Time[l + 1], ph.Flow[l], ph.Flow[l + 1], A)>>>>
        ELSE IF A = Last(ph.Time) THEN <<<<Last(ph.Vol), Last(ph.Flow)>>>>
        ELSE IF RLt(Last(ph.Time), A) THEN <<<<Last(ph.Vol), Last(ph.Flow)>>>>
        ELSE <<>>
        : l \in {TimeHit(ph.Time, A)}})

\* a target for which the inner loop appended something
Present(e) == e # <<>>

\* the resampled volume and flow lists of one phase for its targets
TimeResampleAt(ph, targets) ==
    Only({[Time |-> targets,
           Vol |-> AsList([k \in 1..Len(es) |-> es[k][1][1]]),
           Flow |-> AsList([k \in 1..Len(es) |-> es[k][1][2]])] :
        es \in {SelectSeq(AsList([j \in 1..Len(targets) |->
                                    TimeEntries(ph, targets[j])]), Present)}})

TimeResample(ph, K) ==
    Only({TimeResampleAt(ph, targets) :
            targets \in {TimeIntervals(Last(ph.Time), K)}})

\* time_bins_breath_dictionary["Breath_i"] before normalization
BreathTimeBins(b, K) ==
    Only({[Insp_Time |-> ir.Time, Insp_Vol |-> ir.Vol, Insp_Flow |-> ir.Flow,
           Exp_Time |-> er.Time, Exp_Vol |-> er.Vol, Exp_Flow |-> er.Flow] :
        ir \in {TimeResample(b.insp, K)}, er \in {TimeResample(b.exp, K)}})

\* Vt = abs(vol[-1] - vol[0])
TidalVolume(ph) == RAbs(RSub(Last(ph.Vol), ph.Vol[1]))

\* the sum of the first n elements of s
RECURSIVE RSumTo(_, _)
RSumTo(s, n) == IF n = 0 THEN Zero ELSE RAdd(RSumTo(s, n - 1), s[n])

\* statistics.mean
Mean(s) == RDiv(RSumTo(s, Len(s)), Q(Len(s)))

\* Mean_shift: the sum of Insp_Vol[-1] and Exp_Vol[0] of every breath,
\* divided by number_of_breaths * 2
MeanShift(bins) ==
    RDiv(RSumTo([i \in 1..Len(bins) |->
                   RAdd(Last(bins[i].Insp_Vol), bins[i].Exp_Vol[1])], Len(bins)),
         Q(Len(bins) * 2))

\* Normalize with the two tidal volumes exchanged: (x / Avg_Vt) * Vt
Normalize_Swapped(vols, sub, Vt, AvgVt) ==
    AsList([j \in 1..Len(vols) |-> RMul(RDiv(RSub(vols[j], sub), AvgVt), Vt)])

\* the two normalization passes over one list: subtract, then
\* (x / Vt) * Avg_Vt
Normalize(vols, sub, Vt, AvgVt) ==
    AsList([j \in 1..Len(vols) |-> RMul(RDiv(RSub(vols[j], sub), Vt), AvgVt)])

\* a normalization that rescales the flow lists as well
NormalizeBreath_AllLists(bin, VtI, VtE, AvgI, AvgE) ==
    [bin EXCEPT !.Insp_Vol = Normalize(bin.Insp_Vol, Last(bin.Insp_Vol), VtI, AvgI),
                !.Exp_Vol = Normalize(bin.Exp_Vol, bin.Exp_Vol[1], VtE, AvgE),
                !.Insp_Flow = Normalize(bin.Insp_Flow, Zero, VtI, AvgI),
                !.Exp_Flow = Normalize(bin.Exp_Flow, Zero, VtE, AvgE)]

\* the normalization of the two volume lists of one breath of
\* time_bins_breath_dictionary, in place
NormalizeBreath(bin, VtI, VtE, AvgI, AvgE) ==
    [bin EXCEPT !.Insp_Vol = Normalize(bin.Insp_Vol, Last(bin.Insp_Vol), VtI, AvgI),
                !.Exp_Vol = Normalize(bin.Exp_Vol, bin.Exp_Vol[1], VtE, AvgE)]

\* the per-bin average over the breaths of one list, plus a shift
AverageBins(bins, field, K, shift) ==
    AsList([j \in 1..(K + 1) |->
        RAdd(RDiv(RSumTo([i \in 1..Len(bins) |-> bins[i][field][j]], Len(bins)),
                  Q(Len(bins))),
             shift)])

\* the rescaling and the averages, the resampled lists being complete
TimeBinsResult(bs, copy, VtI, VtE, K, B) ==
    Only({[error |-> "",
           time_bins_breath_dictionary |-> norm,
           original_insp_data_breath_dictionary |-> AsList([i \in 1..B |-> bs[i].insp]),
           original_exp_data_breath_dictionary |-> AsList([i \in 1..B |-> bs[i].exp]),
           time_bin_copy |-> copy,
           Vt_Insp_list |-> VtI,
           Vt_Exp_list |-> VtE,
           Tt_Insp_list |-> AsList([i \in 1..B |-> Last(bs[i].insp.Time)]),
           Tt_Exp_list |-> AsList([i \in 1..B |-> Last(bs[i].exp.Time)]),
           avg_insp_vol_tbin |-> AverageBins(norm, "Insp_Vol", K, Mean_shift),
           avg_exp_vol_tbin |-> AverageBins(norm, "Exp_Vol", K, Mean_shift),
           avg_insp_flow_tbin |-> AverageBins(norm, "Insp_Flow", K, Zero),
           avg_exp_flow_tbin |-> AverageBins(norm, "Exp_Flow", K, Zero),
           Avg_Insp_Vt |-> Mean(VtI),
           Avg_Exp_Vt |-> Mean(VtE),
           Mean_shift |-> Mean_shift] :
        Mean_shift \in {MeanShift(copy)},
        norm \in {AsList([i \in 1..B |->
                    NormalizeBreath(copy[i], VtI[i], VtE[i], Mean(VtI), Mean(VtE))])}})

\* what follows the resampling of the peeled breaths bs; when a resampled
\* list is short the loops after the deep copy, which index every list at
\* 0..intervals, raise IndexError; time_bin_copy holds the lists as resampled
TimeBinsOf(bs, copy, VtI, VtE, K, B) ==
    IF \E i \in 1..B : Len(copy[i].Insp_Vol) < K + 1 \/ Len(copy[i].Exp_Vol) < K + 1
    THEN [error |-> "IndexError", time_bin_copy |-> copy]
    \* Mean_shift / (number_of_breaths * 2), x / Vt_Insp_list[i]
    ELSE IF B = 0 \/ \E i \in 1..B : VtI[i] = Zero \/ VtE[i] = Zero
    THEN [error |-> "ZeroDivisionError", time_bin_copy |-> copy]
    ELSE TimeBinsResult(bs, copy, VtI, VtE, K, B)

process_time_bins(zt, zv, zf, pl, K, B) ==
    Only({IF peeled.error # ""
          THEN [error |-> "IndexError", time_bin_copy |-> <<>>]
          ELSE Only({TimeBinsOf(peeled.breaths, copy, VtI, VtE, K, B) :
                  copy \in {AsList([i \in 1..B |-> BreathTimeBins(peeled.breaths[i], K)])},
                  VtI \in {AsList([i \in 1..B |-> TidalVolume(peeled.breaths[i].insp)])},
                  VtE \in {AsList([i \in 1..B |-> TidalVolume(peeled.breaths[i].exp)])}})
          : peeled \in {PeelBreaths(zt, zv, zf, pl, 0, B)}})

(***************************************************************************)
(* process_volume_bins                                                     *)
(***************************************************************************)
\* VolumeIntervals with the increment added in both phases
VolumeIntervals_Added(start, Vt, K, dir) ==
    AsList([j \in 1..(K + 1) |-> RAdd(start, RMul(RDiv(Vt, Q(K)), Q(j - 1)))])

\* the targets Start - incr * j (inspiration, dir = -1) or Start + incr * j
\* (expiration, dir = 1), with incr = Vt / intervals
VolumeIntervals(start, Vt, K, dir) ==
    AsList([j \in 1..(K + 1) |->
        RAdd(start, RMul(Q(dir), RMul(RDiv(Vt, Q(K)), Q(j - 1))))])

\* vol[l] > A > vol[l + 1] (inspiration) or vol[l] < A < vol[l + 1]
\* (expiration), for 1-based l below the last index
VolumeBracket(V, l, A, dir) ==
    /\ l < Len(V)
    /\ IF dir < 0 THEN RLt(A, V[l]) /\ RLt(V[l + 1], A)
       ELSE RLt(V[l], A) /\ RLt(A, V[l + 1])

\* the first comparison of the bracket test at l, which at the last l is
\* followed by the read of vol[l + 1] that raises IndexError
PastLast(V, A, dir) ==
    IF dir < 0 THEN RLt(A, Last(V)) ELSE RLt(Last(V), A)

\* t1 + ((A - v1) / ((v2 - v1) / (t2 - t1))), then
\* f1 + ((f2 - f1) / (t2 - t1)) * (t - t1)
FlowAtVolume(ph, l, A) ==
    Only({Interpolate(ph.Time[l], ph.Time[l + 1], ph.Flow[l], ph.Flow[l + 1], tA) :
        tA \in {RAdd(ph.Time[l],
                     RDiv(RSub(A, ph.Vol[l]),
                          RDiv(RSub(ph.Vol[l + 1], ph.Vol[l]),
                               RSub(ph.Time[l + 1], ph.Time[l]))))}})

\* an inner loop that takes the last l at which a branch applies
VolumeHit_Last(V, A, dir) ==
    Only({IF hits = {} THEN 0 ELSE Max(hits) :
            hits \in {{l \in 1..Len(V) : V[l] = A \/ VolumeBracket(V, l, A, dir)}}})

\* the first l of the inner loop at which a branch is taken, 0 when none
VolumeHit(V, A, dir) ==
    Only({IF hits = {} THEN 0 ELSE Min(hits) :
            hits \in {{l \in 1..Len(V) : V[l] = A \/ VolumeBracket(V, l, A, dir)}}})

ZeroDivisionError == [error |-> "ZeroDivisionError"]

\* The inner loop over l for one target A: the flow entries it appends.
\* A equal to the first volume gives the first flow and A equal to the last
\* volume the last flow (both are tested at l = 0 before the bracket);
\* otherwise the first l whose volume equals A or that brackets A decides,
\* and the interpolation divides by t2 - t1; at the last l the bracket test
\* raises IndexError when its first comparison holds and the except branch
\* appends the flow of sample l.
VolumeEntries(ph, A, dir) ==
    IF A = ph.Vol[1] THEN <<[error |-> "", flow |-> ph.Flow[1]]>>
    ELSE IF A = Last(ph.Vol) THEN <<[error |-> "", flow |-> Last(ph.Flow)]>>
    ELSE Only({
        IF l > 0
        THEN (IF ph.Vol[l] = A THEN <<[error |-> "", flow |-> ph.Flow[l]]>>
              ELSE IF ph.Time[l] = ph.Time[l + 1] THEN <<ZeroDivisionError>>
              ELSE <<[error |-> "", flow |-> FlowAtVolume(ph, l, A)]>>)
        ELSE IF PastLast(ph.Vol, A, dir) THEN <<[error |-> "", flow |-> Last(ph.Flow)]>>
        ELSE <<>>
        : l \in {VolumeHit(ph.Vol, A, dir)}})

\* the resampled flow list of one phase, or the error of the first target
\* whose interpolation fails
VolumeResample(ph, targets, dir) ==
    Only({IF \E k \in 1..Len(es) : es[k][1].error # ""
          THEN ZeroDivisionError
          ELSE [error |-> "", Flow |-> AsList([k \in 1..Len(es) |-> es[k][1].flow])] :
        es \in {SelectSeq(AsList([j \in 1..Len(targets) |->
                                    VolumeEntries(ph, targets[j], dir)]), Present)}})

\* volume_bins_breath_dictionary["Breath_i"] for the targets iv and ev, or
\* the error of the first interpolation that fails
BreathVolumeBinsAt(insp, exp, iv, ev) ==
    Only({IF ir.error # "" THEN ir
          ELSE IF er.error # "" THEN er
          ELSE [error |-> "",
                bins |-> [Insp_Vol |-> iv, Insp_Flow |-> ir.Flow,
                          Exp_Vol |-> ev, Exp_Flow |-> er.Flow]] :
        ir \in {VolumeResample(insp, iv, -1)},
        er \in {VolumeResample(exp, ev, 1)}})

BreathVolumeBins(insp, exp, VtI, VtE, K) ==
    Only({BreathVolumeBinsAt(insp, exp, iv, ev) :
        iv \in {VolumeIntervals(insp.Vol[1], VtI, K, -1)},
        ev \in {VolumeIntervals(exp.Vol[1], VtE, K, 1)}})

\* the averages, every breath having been resampled
VolumeBinsResult(bins, K) ==
    [error |-> "",
     volume_bins_breath_dictionary |-> bins,
     avg_insp_vol_vbin |-> AverageBins(bins, "Insp_Vol", K, Zero),
     avg_exp_vol_vbin |-> AverageBins(bins, "Exp_Vol", K, Zero),
     avg_insp_flow_vbin |-> AverageBins(bins, "Insp_Flow", K, Zero),
     avg_exp_flow_vbin |-> AverageBins(bins, "Exp_Flow", K, Zero)]

\* rs[i] is the outcome of resampling breath i
VolumeBinsOf(rs, K, B) ==
    IF \E i \in 1..B : rs[i].error # ""
    THEN ZeroDivisionError
    \* the averaging loops index every list at 0..intervals
    ELSE IF \E i \in 1..B : Len(rs[i].bins.Insp_Flow) < K + 1
                            \/ Len(rs[i].bins.Exp_Flow) < K + 1
    THEN IndexError
    ELSE Only({VolumeBinsResult(bins, K) :
            bins \in {AsList([i \in 1..B |-> rs[i].bins])}})

process_volume_bins(tbr, K, B) ==
    Only({VolumeBinsOf(rs, K, B) :
        rs \in {AsList([i \in 1..B |->
                  BreathVolumeBins(tbr.original_insp_data_breath_dictionary[i],
                                   tbr.original_exp_data_breath_dictionary[i],
                                   tbr.Vt_Insp_list[i], tbr.Vt_Exp_list[i], K)])}})

(***************************************************************************)
(* The run of process_fvavg on one recording.                              *)
(***************************************************************************)
VARIABLES
    pc,                  \* the stage of process_fvavg the run has completed
    error,               \* the exception that ended the run, "" when none
    time_raw_list, vol_raw_list, flow_raw_list,
    zeroed_time_list, zeroed_vol_list, zeroed_flow_list,
    phase_indexes_list,
    counter_start, counter_end,
    number_of_breaths,
    intervals,
    time_bins_result,
    volume_bins_result,
    output_workbook,     \* the sheets of the output file and its augmented data
    results              \* the dictionary process_fvavg returns, None before

fvVars == <<pc, error, time_raw_list, vol_raw_list, flow_raw_list,
            zeroed_time_list, zeroed_vol_list, zeroed_flow_list,
            phase_indexes_list, counter_start, counter_end, number_of_breaths,
            intervals, time_bins_result, volume_bins_result,
            output_workbook, results>>

\* the call of extract_subject_id
VARIABLES
    id_pc,        \* "call" before extract_subject_id runs, "done" after it
    filename,     \* its argument
    subject_id    \* its result

idVars == <<id_pc, filename, subject_id>>

\* the Data Processor window
VARIABLES
    selected_files,   \* the list of the files to consolidate
    tlc_values,       \* the TLC of each file that has one
    subject_ids,      \* the subject ID of each file that has one
    output_dir,       \* the output file, or the default message
    output_option,    \* the layout of the output
    tlc_dialog,       \* the TLC dialog and the texts of its entries
    messagebox,       \* the message box the last handler of the window showed
    thread,           \* the worker thread running process_files
    threads_started,  \* the number of worker threads started so far
    written           \* the output workbooks written, by path

appVars == <<selected_files, tlc_values, subject_ids, output_dir, output_option,
             tlc_dialog, messagebox, thread, threads_started, written>>

\* the call of create_horizontal_layout_output
VARIABLES
    layout_pc,    \* "call" before create_horizontal_layout_output runs, "done" after it
    layout,       \* its arguments selected_files and processed_dfs
    workbook      \* the sheets it builds: combined_data, avg_tlc, absolute_data

wrVars == <<layout_pc, layout, workbook>>

\* the call of convert_unedited_file
VARIABLES
    convert_pc,                \* "scan" in the loop over the rows, "done" at the return
    ws,                        \* the first cell of each row of the active sheet
    row,                       \* the number of rows the loop has taken
    flow_values,
    volume_values,
    start_collecting_flow,
    start_collecting_volume,
    skip_next_row_flow,
    skip_next_row_volume,
    processed_data             \* the columns Time, Vol and Flow of the result

fmVars == <<convert_pc, ws, row, flow_values, volume_values,
            start_collecting_flow, start_collecting_volume,
            skip_next_row_flow, skip_next_row_volume, processed_data>>

vars == <<fvVars, idVars, appVars, wrVars, fmVars>>

None == [error |-> "none"]

\* a sheet of the output file; breath is 0 - 1 when the name has no number
Sheet(name, breath) == [name |-> name, breath |-> breath]

\* no output file
NoOutput == [sheets |-> <<>>, Zeroed_Raw_Data |-> None]

\* create_workbook: a new workbook, which has one sheet, saved at the path
create_workbook == [sheets |-> <<Sheet("Sheet", 0 - 1)>>, Zeroed_Raw_Data |-> None]

\* a run that writes no sheet before trimming
WriteZeroedRawData_Skipped(file, zt, zv, zf) == file

\* the sheet Zeroed_Raw_Data appended to the file, with the three lists
WriteZeroedRawData(file, zt, zv, zf) ==
    [sheets |-> Append(file.sheets, Sheet("Zeroed_Raw_Data", 0 - 1)),
     Zeroed_Raw_Data |-> [error |-> "", Time |-> zt, Vol |-> zv, Flow |-> zf]]

\* one sheet per breath 0 .. B - 1
BreathSheets(name, B) == [i \in 1..B |-> Sheet(name, i - 1)]

\* the sheets process_fvavg appends once both schemes have run
ResultSheets(B) ==
    BreathSheets("Not Normalized Time Bin Breath", B)
    \o BreathSheets("Normalized Time Bin Breath", B)
    \o BreathSheets("Volume Bin Breath", B)
    \o BreathSheets("Original Breath", B)
    \o <<Sheet("Comparison_Purposes_tbin", 0 - 1),
         Sheet("Comparison_Purposes_vbin", 0 - 1),
         Sheet("Tidal Volume and Time Data", 0 - 1),
         Sheet("Avg Time Bin Data", 0 - 1),
         Sheet("Avg Vol Bin Data", 0 - 1)>>

\* the raw lists read from the input file
FvInit ==
    /\ \E rec \in Recordings, sign \in {-1, 1} :
          /\ flow_raw_list = FlowOfRuns(rec.runs, sign)
          /\ vol_raw_list = VolOfRuns(rec.runs, sign, rec.dt)
          /\ time_raw_list = TimeOf(flow_raw_list, rec.dt)
    /\ pc = "read"
    /\ error = ""
    /\ zeroed_time_list = <<>>
    /\ zeroed_vol_list = <<>>
    /\ zeroed_flow_list = <<>>
    /\ phase_indexes_list = <<>>
    /\ counter_start = Q(1)
    /\ counter_end = Zero
    /\ number_of_breaths = 0
    /\ intervals = 0
    /\ time_bins_result = None
    /\ volume_bins_result = None
    /\ output_workbook = create_workbook
    /\ results = None

\* find_zero_flow_points and the Zeroed_Raw_Data sheet written from the
\* lists it returns
FindZeroFlowPoints ==
    /\ pc = "read"
    /\ UNCHANGED <<idVars, appVars, wrVars, fmVars>>
    /\ \E r \in {find_zero_flow_points(time_raw_list, vol_raw_list,
                                       flow_raw_list)} :
           /\ zeroed_time_list' = r.t
           /\ zeroed_vol_list' = r.v
           /\ zeroed_flow_list' = r.f
           /\ phase_indexes_list' = r.pl
           /\ output_workbook' = WriteZeroedRawData(output_workbook, r.t, r.v, r.f)
    /\ pc' = "zeroed"
    /\ UNCHANGED <<error, time_raw_list, vol_raw_list, flow_raw_list,
                   counter_start, counter_end, number_of_breaths, intervals,
                   time_bins_result, volume_bins_result, results>>

TrimExcessData ==
    /\ pc = "zeroed"
    /\ UNCHANGED <<idVars, appVars, wrVars, fmVars>>
    /\ \E r \in {trim_excess_data(zeroed_time_list, zeroed_vol_list,
                                  zeroed_flow_list, phase_indexes_list)} :
           IF r.error # ""
           THEN /\ pc' = "failed"
                /\ error' = r.error
                /\ zeroed_time_list' = r.t
                /\ zeroed_vol_list' = r.v
                /\ zeroed_flow_list' = r.f
                /\ phase_indexes_list' = r.pl
                /\ UNCHANGED <<counter_start, counter_end, number_of_breaths>>
           ELSE /\ pc' = "trimmed"
                /\ error' = ""
                /\ zeroed_time_list' = r.t
                /\ zeroed_vol_list' = r.v
                /\ zeroed_flow_list' = r.f
                /\ phase_indexes_list' = r.pl
                /\ counter_start' = r.counter_start
                /\ counter_end' = r.counter_end
                /\ number_of_breaths' = r.number_of_breaths
    /\ UNCHANGED <<time_raw_list, vol_raw_list, flow_raw_list, intervals,
                   time_bins_result, volume_bins_result, output_workbook,
                   results>>

\* process_time_bins works on copies of the lists; intervals is the
\* parameter of the run, first read here
ProcessTimeBins ==
    /\ pc = "trimmed"
    /\ UNCHANGED <<idVars, appVars, wrVars, fmVars>>
    /\ \E K \in 1..MaxK :
          /\ intervals' = K
          /\ \E r \in {process_time_bins(zeroed_time_list, zeroed_vol_list,
                                          zeroed_flow_list, phase_indexes_list,
                                          K, number_of_breaths)} :
                 IF r.error # ""
                 THEN /\ pc' = "failed"
                      /\ error' = r.error
                      /\ time_bins_result' = r
                 ELSE /\ pc' = "time_bins"
                      /\ error' = ""
                      /\ time_bins_result' = r
    /\ UNCHANGED <<time_raw_list, vol_raw_list, flow_raw_list, zeroed_time_list,
                   zeroed_vol_list, zeroed_flow_list, phase_indexes_list,
                   counter_start, counter_end, number_of_breaths,
                   volume_bins_result, output_workbook, results>>

ProcessVolumeBins ==
    /\ pc = "time_bins"
    /\ UNCHANGED <<idVars, appVars, wrVars, fmVars>>
    /\ \E r \in {process_volume_bins(time_bins_result, intervals,
                                     number_of_breaths)} :
           IF r.error # ""
           THEN /\ pc' = "failed"
                /\ error' = r.error
                /\ volume_bins_result' = None
           ELSE /\ pc' = "volume_bins"
                /\ error' = ""
                /\ volume_bins_result' = r
    /\ UNCHANGED <<time_raw_list, vol_raw_list, flow_raw_list, zeroed_time_list,
                   zeroed_vol_list, zeroed_flow_list, phase_indexes_list,
                   counter_start, counter_end, number_of_breaths, intervals,
                   time_bins_result, output_workbook, results>>

\* the rest of process_fvavg: the sheets of the breaths, the comparison
\* sheets, the tidal volumes and times, the averages, and the return
SaveResults ==
    /\ pc = "volume_bins"
    /\ UNCHANGED <<idVars, appVars, wrVars, fmVars>>
    /\ output_workbook' =
          [output_workbook EXCEPT
              !.sheets = @ \o ResultSheets(number_of_breaths)]
    /\ results' = [error |-> "",
                   number_of_breaths |-> number_of_breaths,
                   intervals |-> intervals,
                   time_bins_result |-> time_bins_result,
                   volume_bins_result |-> volume_bins_result]
    /\ pc' = "returned"
    /\ UNCHANGED <<error, time_raw_list, vol_raw_list, flow_raw_list,
                   zeroed_time_list, zeroed_vol_list, zeroed_flow_list,
                   phase_indexes_list, counter_start, counter_end,
                   number_of_breaths, intervals, time_bins_result,
                   volume_bins_result>>

FvNext ==
    \/ FindZeroFlowPoints
    \/ TrimExcessData
    \/ ProcessTimeBins
    \/ ProcessVolumeBins
    \/ SaveResults

(***************************************************************************)
(* extract_subject_id.  A file name is a sequence of one-character         *)
(* strings.                                                                *)
(***************************************************************************)
\* the characters of the generated file names: a letter, the underscore, a
\* hyphen, two digits, the dot and the path separator
NameChars == {"a", "_", "-", "1", "2", ".", "/"}
\* the longest generated file name
MaxName == 3

PatientFile ==
    <<"p", "a", "t", "i", "e", "n", "t", "_", "1", "2", "3", "4", "5", "_",
      "r", "u", "n", "2", ".", "x", "l", "s", "x">>
AbcFile == <<"a", "b", "c", ".", "x", "l", "s", "x">>
SpacedFile ==
    <<"p", "a", "t", "i", "e", "n", "t", " ", "1", "2", "3", "4", "5", " ",
      "r", "u", "n", "2", ".", "x", "l", "s", "x">>
EightDigitFile == <<"1", "2", "3", "4", "5", "6", "7", "8", ".", "x", "l", "s", "x">>

\* the file names extract_subject_id is applied to
FileNames ==
    UNION {[1..n -> NameChars] : n \in 1..MaxName}
    \cup {PatientFile, AbcFile, SpacedFile, EightDigitFile}

Digits == {"0", "1", "2", "3", "4", "5", "6", "7", "8", "9"}
Letters ==
    {"a", "b", "c", "d", "e", "f", "g", "h", "i", "j", "k", "l", "m", "n",
     "o", "p", "q", "r", "s", "t", "u", "v", "w", "x", "y", "z"}
\* \d and \w of the re module
IsDigit(c) == c \in Digits
IsWord(c) == c \in Digits \cup Letters \cup {"_"}

\* os.path.basename: what follows the last separator
basename(path) ==
    Only({SubSeq(path, cut + 1, Len(path)) :
            cut \in {Max({0} \cup {k \in 1..Len(path) : path[k] = "/"})}})

\* os.path.splitext(name)[0]: the name up to its last dot, when a character
\* other than a dot comes before that dot
splitext_root(name) ==
    Only({IF \E k \in 1..(dot - 1) : name[k] # "."
          THEN SubSeq(name, 1, dot - 1) ELSE name :
            dot \in {Max({0} \cup {k \in 1..Len(name) : name[k] = "."})}})

\* the quantifier {2,7} of the pattern
MinDigits == 2
MaxDigits == 7

\* \b between s[k] and s[k + 1] (1-based): exactly one side is a word
\* character, the ends of the string counting as not one
WordBoundary(s, k) ==
    (k >= 1 /\ IsWord(s[k])) # (k < Len(s) /\ IsWord(s[k + 1]))

\* the lengths n with which \b\d{2,7}\b matches s at offset p (0-based)
MatchLens(s, p) ==
    {n \in MinDigits..MaxDigits :
        /\ p + n <= Len(s)
        /\ \A k \in (p + 1)..(p + n) : IsDigit(s[k])
        /\ WordBoundary(s, p)
        /\ WordBoundary(s, p + n)}

\* re.search: the leftmost offset with a match and, \d{2,7} being greedy,
\* the longest match there; <<>> when there is no match
re_search(s) ==
    Only({IF starts = {} THEN <<>>
          ELSE SubSeq(s, Min(starts) + 1, Min(starts) + Max(MatchLens(s, Min(starts)))) :
            starts \in {{p \in 0..Len(s) : MatchLens(s, p) # {}}}})

\* match.group(0) or ""
extract_subject_id(name) ==
    Only({re_search(base_name) : base_name \in {splitext_root(basename(name))}})

(***************************************************************************)
(* The consolidator: the Data Processor window, its TLC dialog and the     *)
(* worker thread that runs process_files.                                  *)
(***************************************************************************)
\* the number of worker threads the window starts
MaxThreads == 1

\* the number of entries of the TLC dialog the user retypes before Apply
MaxEdits == 1

\* the files the file dialog offers
AppFiles == {SpacedFile, AbcFile}

\* the lists without repetition of the files of S: what askopenfilenames
\* can return, <<>> when the dialog is cancelled
ListsOf(S) ==
    UNION {{l \in [1..n -> S] : \A a, b \in 1..n : l[a] = l[b] => a = b} :
             n \in 0..Cardinality(S)}

\* the sheet read from an input file: abc.xlsx lacks the four columns the
\* reader looks for, the other files hold them
SheetOf(file_path) ==
    IF file_path = AbcFile
    THEN [found |-> FALSE, insp_vol |-> <<>>, insp_flow |-> <<>>,
          exp_vol |-> <<>>, exp_flow |-> <<>>]
    ELSE [found |-> TRUE, insp_vol |-> <<Q(0), Q(3)>>, insp_flow |-> <<Q(1), Q(2)>>,
          exp_vol |-> <<Q(3)>>, exp_flow |-> <<Q(-1)>>]

\* a float: a rational, or with denominator 0 an infinity (<<1, 0>>,
\* <<-1, 0>>) or NaN (<<0, 0>>)
IsFinite(x) == x[2] # 0
Sign(n) == IF n > 0 THEN 1 ELSE IF n < 0 THEN -1 ELSE 0
\* the division of a pandas column entry by a scalar: no exception on 0
FloatDiv(a, b) ==
    IF ~IsFinite(a) \/ ~IsFinite(b) THEN <<0, 0>>
    ELSE IF b = Zero THEN <<Sign(a[1]), 0>>
    ELSE RDiv(a, b)
FloatMul(a, b) ==
    IF ~IsFinite(a) \/ ~IsFinite(b) THEN <<Sign(a[1]) * Sign(b[1]), 0>>
    ELSE RMul(a, b)
Hundred == Q(100)
\* (column / tlc) * 100
PercentOfTLC(column, tlc) ==
    [k \in 1..Len(column) |-> FloatMul(FloatDiv(column[k], tlc), Hundred)]

\* read_excel_file: the percent-of-TLC volumes and the flows of one file
read_excel_file(file_path, tlc, sid) ==
    Only({IF ~sheet.found
          THEN [success |-> FALSE, insp_vol |-> <<>>, insp_flow |-> <<>>,
                exp_vol |-> <<>>, exp_flow |-> <<>>, n_rows |-> 0]
          ELSE [success |-> TRUE,
                insp_vol |-> PercentOfTLC(sheet.insp_vol, tlc),
                insp_flow |-> sheet.insp_flow,
                exp_vol |-> PercentOfTLC(sheet.exp_vol, tlc),
                exp_flow |-> sheet.exp_flow,
                n_rows |-> Max({Len(sheet.insp_vol), Len(sheet.exp_vol)})] :
            sheet \in {SheetOf(file_path)}})

\* the texts typed into an entry of the TLC dialog
TLCEntries ==
    {<<>>, <<"x">>, <<"0">>, <<"-", "2">>, <<" ", "2">>, <<"4", ".", "0">>}

\* str.strip
RECURSIVE strip(_)
strip(s) ==
    IF s = <<>> THEN s
    ELSE IF Head(s) = " " THEN strip(Tail(s))
    ELSE IF Last(s) = " " THEN strip(SubSeq(s, 1, Len(s) - 1))
    ELSE s

DigitChars == <<"0", "1", "2", "3", "4", "5", "6", "7", "8", "9">>
DigitValue(c) == (CHOOSE n \in 1..Len(DigitChars) : DigitChars[n] = c) - 1
\* the number written by the digits s[1..n]
RECURSIVE DigitsValue(_, _)
DigitsValue(s, n) ==
    IF n = 0 THEN 0 ELSE DigitsValue(s, n - 1) * Len(DigitChars) + DigitValue(s[n])
RECURSIVE Pow(_, _)
Pow(b, n) == IF n = 0 THEN 1 ELSE b * Pow(b, n - 1)

\* a leading sign and what follows it
Signed(s) == s # <<>> /\ Head(s) \in {"+", "-"}
Unsigned(s) == IF Signed(s) THEN Tail(s) ELSE s
\* the positions of the decimal points of s
Dots(s) == {k \in 1..Len(s) : s[k] = "."}

\* float(text) for a sign, digits and at most one decimal point (the
\* decimal notation; exponents, "inf" and "nan" are not typed):
\* [ok |-> FALSE] stands for ValueError
float(text) ==
    LET s == strip(text)
        body == Unsigned(s)
        digits == SelectSeq(body, IsDigit)
        places == IF Dots(body) = {} THEN 0 ELSE Len(body) - Max(Dots(body))
    IN  IF /\ Cardinality(Dots(body)) <= 1
           /\ Len(digits) >= 1
           /\ \A k \in 1..Len(body) : IsDigit(body[k]) \/ body[k] = "."
        THEN [ok |-> TRUE,
              value |-> Norm((IF Signed(s) /\ Head(s) = "-" THEN -1 ELSE 1)
                                * DigitsValue(digits, Len(digits)),
                             Pow(Len(DigitChars), places))]
        ELSE [ok |-> FALSE, value |-> Zero]

\* the decimal digits of a natural number
RECURSIVE DigitsOf(_)
DigitsOf(n) ==
    IF n < Len(DigitChars) THEN <<DigitChars[n + 1]>>
    ELSE DigitsOf(n \div Len(DigitChars)) \o <<DigitChars[(n % Len(DigitChars)) + 1]>>

\* str(x) of a float with a whole value, as the TLC dialog shows an
\* existing value: "2.0"
str(x) ==
    (IF x[1] < 0 THEN <<"-">> ELSE <<>>) \o DigitsOf(Abs(x[1]) \div x[2]) \o <<".", "0">>

\* the empty dictionary
EmptyDict == [f \in {} |-> Zero]

\* no message box, and messagebox.showerror naming a file by its basename
NoMessage == [call |-> "", message |-> "", file |-> <<>>]
ShowError(message, file_path) ==
    [call |-> "showerror", message |-> message, file |-> basename(file_path)]

\* the error TLCDialog.apply_values raises for one entry, NoMessage when
\* the entry is blank or a positive number
EntryError_Unchecked(file_path, tlc_str) ==
    IF strip(tlc_str) = <<>> THEN NoMessage
    ELSE IF ~float(strip(tlc_str)).ok
         THEN ShowError("Invalid TLC value", file_path)
         ELSE NoMessage
EntryError(file_path, tlc_str) ==
    IF strip(tlc_str) = <<>> THEN NoMessage
    ELSE IF ~float(strip(tlc_str)).ok
         THEN ShowError("Invalid TLC value", file_path)
         ELSE IF ~IsPos(float(strip(tlc_str)).value)
              THEN ShowError("TLC must be a positive number", file_path)
              ELSE NoMessage

\* TLCDialog.apply_values: the entries are read in the order of the file
\* list; the first entry in error ends the loop and leaves no result
apply_values(file_paths, tlc_entries) ==
    Only({IF bad # {}
          THEN [has_error |-> TRUE,
                message |-> EntryError(file_paths[Min(bad)],
                                       tlc_entries[file_paths[Min(bad)]]),
                result |-> EmptyDict]
          ELSE [has_error |-> FALSE,
                message |-> NoMessage,
                result |-> [f \in {file_paths[k] : k \in
                                      {j \in 1..Len(file_paths) :
                                          strip(tlc_entries[file_paths[j]]) # <<>>}}
                              |-> float(strip(tlc_entries[f])).value]] :
            bad \in {{k \in 1..Len(file_paths) :
                        EntryError(file_paths[k], tlc_entries[file_paths[k]])
                            # NoMessage}}})

\* config.py
OUTPUT_HORIZONTAL == "horizontal_layout"
OUTPUT_SEPARATE == "separate_files"
DEFAULT_OUTPUT_MESSAGE ==
    <<"O", "u", "t", "p", "u", "t", " ", "w", "i", "l", "l", " ", "b", "e", " ",
      "s", "a", "v", "e", "d", " ", "i", "n", " ", "o", "r", "i", "g", "i", "n",
      "a", "l", " ", "f", "i", "l", "e", " ", "l", "o", "c", "a", "t", "i", "o",
      "n", "s">>
\* the file asksaveasfilename returns when the user picks one
OutputFile == <<"o", "u", "t", ".", "x", "l", "s", "x">>
Xlsx == <<".", "x", "l", "s", "x">>
TlcPercent == <<"_", "T", "L", "C", "_", "p", "e", "r", "c", "e", "n", "t">>

\* str.replace(old, new)
RECURSIVE replace(_, _, _)
replace(s, old, new) ==
    IF Len(s) < Len(old) THEN s
    ELSE IF SubSeq(s, 1, Len(old)) = old
         THEN new \o replace(SubSeq(s, Len(old) + 1, Len(s)), old, new)
         ELSE <<Head(s)>> \o replace(Tail(s), old, new)

\* f" {subject_id}" if subject_id else ""
SubjectSuffix(sid) == IF sid # <<>> THEN <<" ">> \o sid ELSE <<>>

\* dict.get(key, "")
Get(dict, key) == IF key \in DOMAIN dict THEN dict[key] ELSE <<>>

\* the dictionary with dict[key] = value set
Put(dict, key, value) ==
    [k \in DOMAIN dict \cup {key} |-> IF k = key THEN value ELSE dict[k]]

\* update_auto_subject_ids over files[from..]: a file without a subject ID
\* gets the one extracted from its name, when there is one
RECURSIVE AutoSubjectIds(_, _, _)
AutoSubjectIds(files, ids, from) ==
    IF from > Len(files) THEN ids
    ELSE AutoSubjectIds(files,
            IF Get(ids, files[from]) = <<>> /\ extract_subject_id(files[from]) # <<>>
            THEN Put(ids, files[from], extract_subject_id(files[from]))
            ELSE ids,
            from + 1)

\* the files of chosen appended to the list, those already in it left out
RECURSIVE AppendNew(_, _, _)
AppendNew(list, chosen, from) ==
    IF from > Len(chosen) THEN list
    ELSE AppendNew(IF \E k \in 1..Len(list) : list[k] = chosen[from]
                   THEN list ELSE Append(list, chosen[from]),
                   chosen, from + 1)

\* the closed TLC dialog, and the dialog as TLCDialog.__init__ builds it:
\* one entry per file, showing str of the existing value
NoDialog == [open |-> FALSE, file_paths |-> <<>>, tlc_entries |-> EmptyDict]
TLCDialog(file_paths, existing_values) ==
    [open |-> TRUE,
     file_paths |-> file_paths,
     tlc_entries |-> [f \in {file_paths[k] : k \in 1..Len(file_paths)} |->
                        IF f \in DOMAIN existing_values
                        THEN str(existing_values[f]) ELSE <<>>]]

\* no worker thread
NoThread ==
    [pc |-> "none", selected_files |-> <<>>, shares_files |-> FALSE,
     tlc_values |-> EmptyDict, subject_ids |-> EmptyDict, shares_ids |-> FALSE,
     output_option |-> "", output_path |-> <<>>, i |-> 0,
     successful_files |-> <<>>, failed_files |-> <<>>, processed_dfs |-> <<>>]

\* the entry of failed_files for an exception: f"{filename} (Error: {e})"
Failed(file_name, exception) == [filename |-> file_name, error |-> exception]

\* the subject of an output workbook
Subject(file_path, r, tlc, sid) ==
    [file |-> file_path, subject_id |-> sid, tlc |-> tlc,
     vol |-> r.insp_vol \o r.exp_vol, flow |-> r.insp_flow \o r.exp_flow]

\* create_separate_file_output: the path and the workbook written
SeparatePath(file_path, sid) ==
    replace(file_path, Xlsx, TlcPercent \o SubjectSuffix(sid) \o Xlsx)

\* create_horizontal_layout_output: the subjects of the files of the list
\* that were read, in the order of the list
HorizontalSubjects(files, processed_dfs) ==
    SelectSeq([k \in 1..Len(files) |->
                  IF \E p \in 1..Len(processed_dfs) : processed_dfs[p].file = files[k]
                  THEN processed_dfs[CHOOSE p \in 1..Len(processed_dfs) :
                                         processed_dfs[p].file = files[k]]
                  ELSE [file |-> <<>>]],
              LAMBDA e : e.file # <<>>)

\* the worker thread holds the list and the dictionary objects it was
\* given: it sees what is appended or stored in place for as long as the
\* window has not rebound its attribute to a new object
Shared(files, ids) ==
    [thread EXCEPT
        !.selected_files = IF thread.shares_files THEN files ELSE @,
        !.subject_ids = IF thread.shares_ids THEN ids ELSE @]

\* add_files, with the update_auto_subject_ids it ends with (the
\* auto-extract option is on)
AddFiles ==
    /\ ~tlc_dialog.open
    /\ \E files \in ListsOf(AppFiles) :
          IF files = <<>>
          THEN UNCHANGED <<selected_files, subject_ids, thread>>
          ELSE \E list \in {AppendNew(selected_files, files, 1)} :
               \E ids \in {AutoSubjectIds(list, subject_ids, 1)} :
                  /\ selected_files' = list
                  /\ subject_ids' = ids
                  /\ thread' = Shared(list, ids)
    /\ messagebox' = NoMessage
    /\ UNCHANGED <<tlc_values, output_dir, output_option, tlc_dialog,
                   written, threads_started, fvVars, idVars, wrVars, fmVars>>

\* clear_files: the three attributes are bound to new empty objects
ClearFiles ==
    /\ ~tlc_dialog.open
    /\ selected_files' = <<>>
    /\ tlc_values' = EmptyDict
    /\ subject_ids' = EmptyDict
    /\ thread' = [thread EXCEPT !.shares_files = FALSE, !.shares_ids = FALSE]
    /\ messagebox' = NoMessage
    /\ UNCHANGED <<output_dir, output_option, tlc_dialog, written,
                   threads_started, fvVars, idVars, wrVars, fmVars>>

\* set_tlc_values up to wait_window: the dialog opens, or there is no file
SetTLCValues ==
    /\ ~tlc_dialog.open
    /\ IF selected_files = <<>>
       THEN /\ messagebox' = ShowError("Please select at least one Excel file first.", <<>>)
            /\ UNCHANGED tlc_dialog
       ELSE /\ tlc_dialog' = TLCDialog(selected_files, tlc_values)
            /\ messagebox' = NoMessage
    /\ UNCHANGED <<selected_files, tlc_values, subject_ids, output_dir,
                   output_option, thread, written, threads_started, fvVars, idVars, wrVars, fmVars>>

\* Apply, on the texts the user has typed into the entries or left in them:
\* apply_values and, when it closes the dialog, the rest of set_tlc_values,
\* which keeps a result that is not empty
ApplyValues ==
    /\ tlc_dialog.open
    /\ \E edited \in {e \in SUBSET DOMAIN tlc_dialog.tlc_entries :
                            Cardinality(e) <= MaxEdits} :
       \E typed \in [edited -> TLCEntries] :
       \E r \in {apply_values(tlc_dialog.file_paths,
                              [f \in DOMAIN tlc_dialog.tlc_entries |->
                                  IF f \in edited THEN typed[f]
                                  ELSE tlc_dialog.tlc_entries[f]])} :
          IF r.has_error
          THEN /\ messagebox' = r.message
               /\ UNCHANGED <<tlc_dialog, tlc_values>>
          ELSE /\ tlc_dialog' = NoDialog
               /\ tlc_values' = IF DOMAIN r.result # {} THEN r.result ELSE tlc_values
               /\ messagebox' = NoMessage
    /\ UNCHANGED <<selected_files, subject_ids, output_dir, output_option,
                   thread, written, threads_started, fvVars, idVars, wrVars, fmVars>>

\* Cancel: the dialog is destroyed without a result
CancelTLCDialog ==
    /\ tlc_dialog.open
    /\ tlc_dialog' = NoDialog
    /\ messagebox' = NoMessage
    /\ UNCHANGED <<selected_files, tlc_values, subject_ids, output_dir,
                   output_option, thread, written, threads_started, fvVars, idVars, wrVars, fmVars>>

\* the radio buttons of the output option
SetOutputOption ==
    /\ ~tlc_dialog.open
    /\ \E option \in {OUTPUT_HORIZONTAL, OUTPUT_SEPARATE} : output_option' = option
    /\ messagebox' = NoMessage
    /\ UNCHANGED <<selected_files, tlc_values, subject_ids, output_dir,
                   tlc_dialog, thread, written, threads_started, fvVars, idVars, wrVars, fmVars>>

\* set_output_location: a path picked in the file dialog is kept
SetOutputLocation ==
    /\ ~tlc_dialog.open
    /\ \E file_path \in {<<>>, OutputFile} :
          output_dir' = IF file_path # <<>> THEN file_path ELSE output_dir
    /\ messagebox' = NoMessage
    /\ UNCHANGED <<selected_files, tlc_values, subject_ids, output_option,
                   tlc_dialog, thread, written, threads_started, fvVars, idVars, wrVars, fmVars>>

\* the worker thread start_processing creates
Started(output_path) ==
    [pc |-> "running", selected_files |-> selected_files, shares_files |-> TRUE,
     tlc_values |-> tlc_values, subject_ids |-> subject_ids, shares_ids |-> TRUE,
     output_option |-> output_option, output_path |-> output_path, i |-> 0,
     successful_files |-> <<>>, failed_files |-> <<>>, processed_dfs |-> <<>>]

\* every file of the list has a TLC
AllHaveTLC ==
    \A k \in 1..Len(selected_files) : selected_files[k] \in DOMAIN tlc_values

\* start_processing; a worker thread is started when none is running, for
\* MaxThreads threads in all
StartProcessing ==
    /\ ~tlc_dialog.open
    /\ (selected_files # <<>> /\ AllHaveTLC) =>
            (thread.pc = "none" /\ threads_started < MaxThreads)
    /\ IF selected_files = <<>>
       THEN /\ messagebox' = ShowError("Please select at least one Excel file.", <<>>)
            /\ UNCHANGED <<output_dir, thread, threads_started>>
       ELSE IF ~AllHaveTLC
       THEN /\ messagebox' = ShowError("Missing TLC values for the following files",
                                       selected_files[Min({k \in 1..Len(selected_files) :
                                           selected_files[k] \notin DOMAIN tlc_values})])
            /\ UNCHANGED <<output_dir, thread, threads_started>>
       ELSE IF output_option = OUTPUT_HORIZONTAL /\ output_dir = DEFAULT_OUTPUT_MESSAGE
       THEN \E file_path \in {<<>>, OutputFile} :
               IF file_path = <<>>
               THEN /\ messagebox' = ShowError("Please select an output file location.", <<>>)
                    /\ UNCHANGED <<output_dir, thread, threads_started>>
               ELSE /\ output_dir' = file_path
                    /\ thread' = Started(file_path)
                    /\ threads_started' = threads_started + 1
                    /\ messagebox' = NoMessage
       ELSE /\ thread' = Started(output_dir)
            /\ threads_started' = threads_started + 1
            /\ messagebox' = NoMessage
            /\ UNCHANGED output_dir
    /\ UNCHANGED <<selected_files, tlc_values, subject_ids, output_option,
                   tlc_dialog, written, fvVars, idVars, wrVars, fmVars>>

\* the exception of a workbook that cannot be saved
WriteError == "OSError"

\* create_separate_file_output saves the workbook (TRUE) or raises when the
\* file cannot be written (FALSE); the loop calls it for separate files only
WriteOutcomes(option) ==
    IF option # OUTPUT_HORIZONTAL THEN BOOLEAN ELSE {TRUE}

\* process_files with a loop that an error ends
ProcessFile_Abort ==
    /\ thread.pc = "running"
    /\ thread.i < Len(thread.selected_files)
    /\ \E file_path \in {thread.selected_files[thread.i + 1]} :
       \E file_name \in {basename(file_path)} :
          IF file_path \notin DOMAIN thread.tlc_values \/ ~SheetOf(file_path).found
          THEN /\ thread' = [thread EXCEPT !.i = Len(thread.selected_files),
                                !.failed_files = Append(@, Failed(file_name, ""))]
               /\ UNCHANGED written
          ELSE \E tlc \in {thread.tlc_values[file_path]} :
               \E sid \in {Get(thread.subject_ids, file_path)} :
               \E r \in {read_excel_file(file_path, tlc, sid)} :
                  /\ thread' = [thread EXCEPT !.i = @ + 1,
                                   !.successful_files = Append(@, file_name),
                                   !.processed_dfs =
                                       Append(@, Subject(file_path, r, tlc, sid))]
                  /\ written' =
                       IF thread.output_option # OUTPUT_HORIZONTAL
                       THEN Put(written, SeparatePath(file_path, sid),
                                <<Subject(file_path, r, tlc, sid)>>)
                       ELSE written
    /\ UNCHANGED <<selected_files, tlc_values, subject_ids, output_dir,
                   output_option, tlc_dialog, messagebox, threads_started, fvVars, idVars, wrVars, fmVars>>

\* process_files: one turn of the loop over selected_files; the file is
\* appended to successful_files before its separate output is written, and
\* an exception of the writer is caught with the others
ProcessFile ==
    /\ thread.pc = "running"
    /\ thread.i < Len(thread.selected_files)
    /\ \E file_path \in {thread.selected_files[thread.i + 1]} :
       \E file_name \in {basename(file_path)} :
          IF file_path \notin DOMAIN thread.tlc_values
          THEN /\ thread' = [thread EXCEPT !.i = @ + 1,
                                !.failed_files = Append(@, Failed(file_name, "KeyError"))]
               /\ UNCHANGED written
          ELSE \E tlc \in {thread.tlc_values[file_path]} :
               \E sid \in {Get(thread.subject_ids, file_path)} :
               \E r \in {read_excel_file(file_path, tlc, sid)} :
                  IF r.success
                  THEN \E saved \in WriteOutcomes(thread.output_option) :
                       /\ thread' = [thread EXCEPT !.i = @ + 1,
                                        !.successful_files = Append(@, file_name),
                                        !.processed_dfs =
                                            Append(@, Subject(file_path, r, tlc, sid)),
                                        !.failed_files =
                                            IF saved THEN @
                                            ELSE Append(@, Failed(file_name, WriteError))]
                       /\ written' =
                            IF thread.output_option # OUTPUT_HORIZONTAL /\ saved
                            THEN Put(written, SeparatePath(file_path, sid),
                                     <<Subject(file_path, r, tlc, sid)>>)
                            ELSE written
                  ELSE /\ thread' = [thread EXCEPT !.i = @ + 1,
                                        !.failed_files = Append(@, Failed(file_name, ""))]
                       /\ UNCHANGED written
    /\ UNCHANGED <<selected_files, tlc_values, subject_ids, output_dir,
                   output_option, tlc_dialog, messagebox, threads_started, fvVars, idVars, wrVars, fmVars>>

\* process_files after the loop: the consolidated workbook when a file was
\* read, and the result handed to the window
ReturnResult ==
    /\ thread.pc = "running"
    /\ thread.i = Len(thread.selected_files)
    /\ written' =
          IF thread.output_option = OUTPUT_HORIZONTAL /\ thread.processed_dfs # <<>>
          THEN Put(written, thread.output_path,
                   HorizontalSubjects(thread.selected_files, thread.processed_dfs))
          ELSE written
    /\ thread' = [NoThread EXCEPT
                    !.pc = "returned",
                    !.successful_files = thread.successful_files,
                    !.failed_files = thread.failed_files,
                    !.output_path = IF thread.output_option = OUTPUT_HORIZONTAL
                                    THEN thread.output_path ELSE <<>>]
    /\ UNCHANGED <<selected_files, tlc_values, subject_ids, output_dir,
                   output_option, tlc_dialog, messagebox, threads_started, fvVars, idVars, wrVars, fmVars>>

\* processing_complete, called back in the window's event loop
ProcessingComplete ==
    /\ thread.pc = "returned"
    /\ messagebox' =
          IF thread.failed_files # <<>>
          THEN [call |-> "showwarning", message |-> "Processing Incomplete",
                file |-> thread.failed_files[1].filename]
          ELSE [call |-> "showinfo", message |-> "Success", file |-> <<>>]
    /\ thread' = NoThread
    /\ UNCHANGED <<selected_files, tlc_values, subject_ids, output_dir,
                   output_option, tlc_dialog, written, threads_started, fvVars, idVars, wrVars, fmVars>>

AppNext ==
    \/ AddFiles
    \/ ClearFiles
    \/ SetTLCValues
    \/ ApplyValues
    \/ CancelTLCDialog
    \/ SetOutputOption
    \/ SetOutputLocation
    \/ StartProcessing
    \/ ProcessFile
    \/ ReturnResult
    \/ ProcessingComplete

\* DataProcessorInterface.__init__
AppStart ==
    /\ selected_files = <<>>
    /\ tlc_values = EmptyDict
    /\ subject_ids = EmptyDict
    /\ output_dir = DEFAULT_OUTPUT_MESSAGE
    /\ output_option = OUTPUT_HORIZONTAL
    /\ tlc_dialog = NoDialog
    /\ messagebox = NoMessage
    /\ thread = NoThread
    /\ threads_started = 0
    /\ written = EmptyDict

\* no flow-volume run
FvIdle ==
    /\ pc = "idle"
    /\ error = ""
    /\ time_raw_list = <<>> /\ vol_raw_list = <<>> /\ flow_raw_list = <<>>
    /\ zeroed_time_list = <<>> /\ zeroed_vol_list = <<>> /\ zeroed_flow_list = <<>>
    /\ phase_indexes_list = <<>>
    /\ counter_start = Q(1) /\ counter_end = Zero
    /\ number_of_breaths = 0
    /\ intervals = 0
    /\ time_bins_result = None
    /\ volume_bins_result = None
    /\ output_workbook = NoOutput
    /\ results = None

\* no call of extract_subject_id
IdIdle == id_pc = "idle" /\ filename = <<>> /\ subject_id = <<>>

\* extract_subject_id is called on a file name
IdCall == id_pc = "call" /\ filename \in FileNames /\ subject_id = <<>>

ExtractSubjectId ==
    /\ id_pc = "call"
    /\ subject_id' = extract_subject_id(filename)
    /\ id_pc' = "done"
    /\ UNCHANGED <<filename, fvVars, appVars, wrVars, fmVars>>

IdNext == ExtractSubjectId

(***************************************************************************)
(* create_horizontal_layout_output: the consolidated workbook.             *)
(***************************************************************************)
\* the files of the list handed to process_files
LayoutFiles == {SpacedFile, PatientFile, EightDigitFile, AbcFile}
\* the TLC values and the subject IDs given to them ("" is no subject ID)
LayoutTLCs == {Q(2), Q(6), Q(8)}
LayoutIds == {<<>>, <<"2">>}

\* the entry of processed_dfs process_files stores for a file it has read
ProcessedEntry(file_path, tlc, sid) ==
    Only({[insp_vol |-> r.insp_vol, insp_flow |-> r.insp_flow,
           exp_vol |-> r.exp_vol, exp_flow |-> r.exp_flow,
           tlc |-> tlc, subject_id |-> sid] :
             r \in {read_excel_file(file_path, tlc, sid)}})

\* the arguments process_files hands over after its loop: processed_dfs
\* holds the files of the list that were read, and there is at least one
LayoutCalls ==
    UNION {UNION {{[selected_files |-> files,
                    processed_dfs |->
                        [f \in read |-> ProcessedEntry(f, tlcs[f], ids[f])],
                    max_rows |-> Max({Max({Len(SheetOf(f).insp_vol), Len(SheetOf(f).exp_vol)}) : f \in read})] :
                       tlcs \in [read -> LayoutTLCs], ids \in [read -> LayoutIds]} :
                    read \in {{files[k] : k \in 1..Len(files)} \ {AbcFile}} \ {{}}} :
             files \in ListsOf(LayoutFiles)}

\* the empty cell fillna("") leaves, and NaN
Blank == <<>>
IsNull(x) == x = <<0, 0>>

\* series.reindex(range(max_rows)).fillna("") of a series shorter than max_rows
Reindex(series, max_rows) ==
    IF Len(series) < max_rows
    THEN series \o [k \in 1..(max_rows - Len(series)) |-> Blank]
    ELSE series

\* the name of a column: its title and, after a space, the subject ID or
\* the position of the file in the list
ColumnName(title, sid, position) ==
    [title |-> title, id |-> IF sid # <<>> THEN sid ELSE DigitsOf(position)]

\* dict[key] = value on a dictionary kept in insertion order: an existing
\* key keeps its place and takes the new value
SetItem(columns, name, values) ==
    IF \E k \in 1..Len(columns) : columns[k].name = name
    THEN [k \in 1..Len(columns) |->
             IF columns[k].name = name THEN [name |-> name, values |-> values]
             ELSE columns[k]]
    ELSE Append(columns, [name |-> name, values |-> values])

\* combined_data after the first n files of the list
RECURSIVE CombinedData(_, _, _, _)
CombinedData(files, processed_dfs, max_rows, n) ==
    IF n = 0 THEN <<>>
    ELSE IF files[n] \notin DOMAIN processed_dfs
    THEN CombinedData(files, processed_dfs, max_rows, n - 1)
    ELSE Only({SetItem(SetItem(CombinedData(files, processed_dfs, max_rows, n - 1),
                               ColumnName("Vol % TLC", d.subject_id, n),
                               Reindex(d.insp_vol, max_rows) \o Reindex(d.exp_vol, max_rows)),
                       ColumnName("Flow", d.subject_id, n),
                       Reindex(d.insp_flow, max_rows) \o Reindex(d.exp_flow, max_rows)) :
                 d \in {processed_dfs[files[n]]}})

\* all_tlc_values: the TLC of the files that were read, in the order of the list
AllTLCValues(files, processed_dfs) ==
    Only({[k \in 1..Len(read) |-> processed_dfs[read[k]].tlc] :
            read \in {SelectSeq(files, LAMBDA f : f \in DOMAIN processed_dfs)}})

\* the whole number below a rational
Floor(x) == x[1] \div x[2]

\* round(x, 2) with a truncation in place of the rounding
Round2_Truncated(x) == Norm(Floor(RMul(x, Hundred)), 100)

\* round(x, 2): the nearest multiple of 0.01, the even one of two equally near
Round2(x) ==
    LET scaled == RMul(x, Hundred)
        below == Floor(scaled)
        rest == RSub(scaled, Q(below))
    IN  Norm(IF RLt(rest, Half) THEN below
             ELSE IF RLt(Half, rest) THEN below + 1
             ELSE IF below % 2 = 0 THEN below ELSE below + 1, 100)

\* avg_tlc: sum(all_tlc_values) / len(all_tlc_values), rounded to 2 places
AvgTLC(all_tlc_values) ==
    IF all_tlc_values # <<>> THEN Round2(Mean(all_tlc_values)) ELSE Zero

\* (float(x) * avg_tlc / 100) if pd.notnull(x) and x != "" else x
AbsoluteVolume(x, avg_tlc) ==
    IF x # Blank /\ ~IsNull(x) THEN FloatDiv(FloatMul(x, avg_tlc), Hundred) ELSE x

\* absolute_data after the first n columns of combined_df
RECURSIVE AbsoluteData(_, _, _)
AbsoluteData(combined_df, avg_tlc, n) ==
    IF n = 0 THEN <<>>
    ELSE Only({IF col.name.title = "Vol % TLC"
               THEN SetItem(AbsoluteData(combined_df, avg_tlc, n - 1),
                            [col.name EXCEPT !.title = "Absolute Vol"],
                            [k \in 1..Len(col.values) |->
                                AbsoluteVolume(col.values[k], avg_tlc)])
               ELSE SetItem(AbsoluteData(combined_df, avg_tlc, n - 1),
                            col.name, col.values) :
                 col \in {combined_df[n]}})

\* create_horizontal_layout_output: the sheets "Individual Data" and
\* "Absolute Volume Data" and the average TLC written below them
create_horizontal_layout_output(files, processed_dfs, max_rows) ==
    Only({[combined_data |-> combined_data,
           avg_tlc |-> avg_tlc,
           absolute_data |-> AbsoluteData(combined_data, avg_tlc, Len(combined_data))] :
             combined_data \in {CombinedData(files, processed_dfs, max_rows, Len(files))},
             avg_tlc \in {AvgTLC(AllTLCValues(files, processed_dfs))}})

NoLayout == [selected_files |-> <<>>, processed_dfs |-> EmptyDict, max_rows |-> 0]
NoWorkbook == [combined_data |-> <<>>, avg_tlc |-> Zero, absolute_data |-> <<>>]

\* create_horizontal_layout_output is called by process_files
WrCall ==
    /\ layout_pc = "call"
    /\ layout \in LayoutCalls
    /\ workbook = NoWorkbook

CreateHorizontalLayoutOutput ==
    /\ layout_pc = "call"
    /\ workbook' = create_horizontal_layout_output(layout.selected_files,
                                                   layout.processed_dfs, layout.max_rows)
    /\ layout_pc' = "done"
    /\ UNCHANGED <<layout, fvVars, idVars, appVars, fmVars>>

WrNext == CreateHorizontalLayoutOutput

\* no call of create_horizontal_layout_output
WrIdle ==
    /\ layout_pc = "idle"
    /\ layout = NoLayout
    /\ workbook = NoWorkbook

(***************************************************************************)
(* convert_unedited_file: the raw-ingest scan of the Data Formatter.       *)
(***************************************************************************)
\* the longest sheet scanned
MaxRows == 6

\* the value None of an empty cell
NoneCell == <<"None">>
\* the first cells of the rows of a sheet: the header of the flow block,
\* the header of the volume block, a number, an empty cell, a cell of spaces
FlowCell == <<"F", " ", "L", "t", "r", "/", "s">>
VolumeCell == <<" ", "L", "T", "R">>
NumberCell == <<"2", ".", "5">>
SpaceCell == <<" ">>
Cells == {FlowCell, VolumeCell, NumberCell, NoneCell, SpaceCell}
Sheets == UNION {[1..n -> Cells] : n \in 0..MaxRows}

\* str.lower
Uppercase ==
    <<"A", "B", "C", "D", "E", "F", "G", "H", "I", "J", "K", "L", "M",
      "N", "O", "P", "Q", "R", "S", "T", "U", "V", "W", "X", "Y", "Z">>
Lowercase ==
    <<"a", "b", "c", "d", "e", "f", "g", "h", "i", "j", "k", "l", "m",
      "n", "o", "p", "q", "r", "s", "t", "u", "v", "w", "x", "y", "z">>
lower(s) ==
    [k \in 1..Len(s) |->
        IF \E u \in 1..Len(Uppercase) : Uppercase[u] = s[k]
        THEN Lowercase[CHOOSE u \in 1..Len(Uppercase) : Uppercase[u] = s[k]]
        ELSE s[k]]

\* sub in s
Contains(s, sub) ==
    \E k \in 0..(Len(s) - Len(sub)) : SubSeq(s, k + 1, k + Len(sub)) = sub

\* str(row[0]).strip() if row[0] is not None else ""
FirstColumn(cell) == IF cell # NoneCell THEN strip(cell) ELSE <<>>

\* the two markers
LtrPerS == <<"l", "t", "r", "/", "s">>
Ltr == <<"l", "t", "r">>
FlowMarker(first_column) == Contains(lower(first_column), LtrPerS)
VolumeMarker(first_column) == lower(first_column) = Ltr

\* values.append(float(first_column)), with the ValueError passed over
Collect(values, first_column) ==
    Only({IF number.ok THEN Append(values, number.value) ELSE values :
            number \in {float(first_column)}})

NaN == <<0, 0>>

\* max_length with the shorter of the two runs
max_length_Shorter(flow, volume) == Min({Len(flow), Len(volume)})

\* max_length = max(len(flow_values), len(volume_values))
max_length(flow, volume) == Max({Len(flow), Len(volume)})

\* time_data = [round(0.01 * i, 2) for i in range(1, max_length + 1)]
TimeData(length) == [i \in 1..length |-> Round2(RMul(SamplePeriod, Q(i)))]

\* values.extend([np.nan] * (max_length - len(values))) if len(values) < max_length
Extend(values, length) ==
    IF Len(values) < length
    THEN values \o [k \in 1..(length - Len(values)) |-> NaN]
    ELSE values

NoData == [Time |-> <<>>, Vol |-> <<>>, Flow |-> <<>>]

\* convert_unedited_file is called on a sheet
FmCall ==
    /\ convert_pc = "scan"
    /\ ws \in Sheets
    /\ row = 0
    /\ flow_values = <<>> /\ volume_values = <<>>
    /\ start_collecting_flow = FALSE /\ start_collecting_volume = FALSE
    /\ skip_next_row_flow = FALSE /\ skip_next_row_volume = FALSE
    /\ processed_data = NoData

\* one turn of the loop over ws.iter_rows
ScanRow ==
    /\ convert_pc = "scan"
    /\ row < Len(ws)
    /\ row' = row + 1
    /\ \E first_column \in {FirstColumn(ws[row + 1])} :
          IF ~start_collecting_flow /\ FlowMarker(first_column)
          THEN /\ skip_next_row_flow' = TRUE
               /\ start_collecting_flow' = TRUE
               /\ UNCHANGED <<flow_values, volume_values, start_collecting_volume,
                              skip_next_row_volume>>
          ELSE IF ~start_collecting_volume /\ VolumeMarker(first_column)
          THEN /\ skip_next_row_volume' = TRUE
               /\ start_collecting_volume' = TRUE
               /\ UNCHANGED <<flow_values, volume_values, start_collecting_flow,
                              skip_next_row_flow>>
          ELSE IF skip_next_row_flow
          THEN /\ skip_next_row_flow' = FALSE
               /\ UNCHANGED <<flow_values, volume_values, start_collecting_flow,
                              start_collecting_volume, skip_next_row_volume>>
          ELSE IF skip_next_row_volume
          THEN /\ skip_next_row_volume' = FALSE
               /\ UNCHANGED <<flow_values, volume_values, start_collecting_flow,
                              start_collecting_volume, skip_next_row_flow>>
          ELSE /\ start_collecting_flow' =
                     (start_collecting_flow /\ first_column # <<>>)
               /\ flow_values' =
                     IF start_collecting_flow /\ first_column # <<>>
                     THEN Collect(flow_values, first_column) ELSE flow_values
               /\ start_collecting_volume' =
                     (start_collecting_volume /\ first_column # <<>>)
               /\ volume_values' =
                     IF start_collecting_volume /\ first_column # <<>>
                     THEN Collect(volume_values, first_column) ELSE volume_values
               /\ UNCHANGED <<skip_next_row_flow, skip_next_row_volume>>
    /\ UNCHANGED <<convert_pc, ws, processed_data, fvVars, idVars, appVars, wrVars>>

\* after the loop: the time column, the padding of the shorter list and
\* the DataFrame returned
BuildDataFrame ==
    /\ convert_pc = "scan"
    /\ row = Len(ws)
    /\ \E length \in {max_length(flow_values, volume_values)} :
          /\ flow_values' = Extend(flow_values, length)
          /\ volume_values' = Extend(volume_values, length)
          /\ processed_data' = [Time |-> TimeData(length),
                                Vol |-> Extend(volume_values, length),
                                Flow |-> Extend(flow_values, length)]
    /\ convert_pc' = "done"
    /\ UNCHANGED <<ws, row, start_collecting_flow, start_collecting_volume,
                   skip_next_row_flow, skip_next_row_volume,
                   fvVars, idVars, appVars, wrVars>>

FmNext == ScanRow \/ BuildDataFrame

\* no call of convert_unedited_file
FmIdle ==
    /\ convert_pc = "idle"
    /\ ws = <<>>
    /\ row = 0
    /\ flow_values = <<>> /\ volume_values = <<>>
    /\ start_collecting_flow = FALSE /\ start_collecting_volume = FALSE
    /\ skip_next_row_flow = FALSE /\ skip_next_row_volume = FALSE
    /\ processed_data = NoData

\* process_fvavg on one recording
Init == FvInit /\ IdIdle /\ AppStart /\ WrIdle /\ FmIdle
Next == FvNext
Spec == Init /\ [][Next]_vars

\* extract_subject_id on one file name
IdInit == IdCall /\ FvIdle /\ AppStart /\ WrIdle /\ FmIdle
IdSpec == IdInit /\ [][IdNext]_vars

\* create_horizontal_layout_output on the files process_files has read
WrInit == WrCall /\ FvIdle /\ IdIdle /\ AppStart /\ FmIdle
WrSpec == WrInit /\ [][WrNext]_vars

\* convert_unedited_file on one sheet
FmInit == FmCall /\ FvIdle /\ IdIdle /\ AppStart /\ WrIdle
FmSpec == FmInit /\ [][FmNext]_vars

\* the Data Processor window from its construction on
AppInit == AppStart /\ FvIdle /\ IdIdle /\ WrIdle /\ FmIdle
AppSpec == AppInit /\ [][AppNext]_vars

(***************************************************************************)
(* Properties of detection and trimming.                                   *)
(***************************************************************************)
\* trim_excess_data has returned normally
Trimmed == pc = "trimmed"

\* C1: whenever trim_excess_data returns normally on the output of
\* find_zero_flow_points, the returned phase list has even length and the
\* returned number_of_breaths is that length divided by 2.
C1_PhaseParity ==
    Trimmed => /\ Len(phase_indexes_list) % 2 = 0
               /\ number_of_breaths * 2 = Len(phase_indexes_list)

\* C2: whenever trim_excess_data returns normally, the sum of the remaining
\* phase lengths equals the length of the trimmed time, volume and flow
\* lists.
C2_PhasesCoverLists ==
    Trimmed =>
        /\ ISumTo(phase_indexes_list, Len(phase_indexes_list)) = Len(zeroed_time_list)
        /\ Len(zeroed_vol_list) = Len(zeroed_time_list)
        /\ Len(zeroed_flow_list) = Len(zeroed_time_list)

\* C7: trim_excess_data never returns normally with number_of_breaths = 0;
\* a recording without a complete breath ends in an error.
C7_NoBreathIsError == Trimmed => number_of_breaths >= 1

(***************************************************************************)
(* Properties of the resampling.                                           *)
(***************************************************************************)
\* process_time_bins has run, with or without an exception
TimeBinsRan == intervals > 0

\* process_time_bins has returned normally
TimeBinsReturned == TimeBinsRan /\ time_bins_result.error = ""

\* process_volume_bins has returned normally
VolumeBinsReturned == pc = "volume_bins"

\* every list of the six of one breath has K + 1 entries
FullTimeBins(bin, K) ==
    /\ Len(bin.Insp_Time) = K + 1 /\ Len(bin.Insp_Vol) = K + 1
    /\ Len(bin.Insp_Flow) = K + 1 /\ Len(bin.Exp_Time) = K + 1
    /\ Len(bin.Exp_Vol) = K + 1 /\ Len(bin.Exp_Flow) = K + 1

FullVolumeBins(bin, K) ==
    /\ Len(bin.Insp_Vol) = K + 1 /\ Len(bin.Insp_Flow) = K + 1
    /\ Len(bin.Exp_Vol) = K + 1 /\ Len(bin.Exp_Flow) = K + 1

\* C3: in both schemes every resampled list of every breath has exactly
\* intervals + 1 entries, whatever the samples of the phase are.
C3_BinCount ==
    /\ TimeBinsRan =>
         \A i \in DOMAIN time_bins_result.time_bin_copy :
            FullTimeBins(time_bins_result.time_bin_copy[i], intervals)
    /\ VolumeBinsReturned =>
         \A i \in DOMAIN volume_bins_result.volume_bins_breath_dictionary :
            FullVolumeBins(volume_bins_result.volume_bins_breath_dictionary[i], intervals)

\* the first and the last entry of a resampled volume and flow list are the
\* first and the last sample of the phase
EndpointsKept(vols, flows, ph, K) ==
    /\ vols[1] = ph.Vol[1] /\ flows[1] = ph.Flow[1]
    /\ vols[K + 1] = Last(ph.Vol) /\ flows[K + 1] = Last(ph.Flow)

\* C4: for every breath and each phase, in the time scheme and in the
\* volume scheme, the resampled volume and flow of bin 0 are those of the
\* first sample of the phase and those of bin K are those of its last
\* sample.
C4_Endpoints ==
    /\ TimeBinsReturned =>
         \A i \in 1..number_of_breaths :
            /\ EndpointsKept(time_bins_result.time_bin_copy[i].Insp_Vol,
                             time_bins_result.time_bin_copy[i].Insp_Flow,
                             time_bins_result.original_insp_data_breath_dictionary[i],
                             intervals)
            /\ EndpointsKept(time_bins_result.time_bin_copy[i].Exp_Vol,
                             time_bins_result.time_bin_copy[i].Exp_Flow,
                             time_bins_result.original_exp_data_breath_dictionary[i],
                             intervals)
    /\ VolumeBinsReturned =>
         \A i \in 1..number_of_breaths :
            /\ EndpointsKept(volume_bins_result.volume_bins_breath_dictionary[i].Insp_Vol,
                             volume_bins_result.volume_bins_breath_dictionary[i].Insp_Flow,
                             time_bins_result.original_insp_data_breath_dictionary[i],
                             intervals)
            /\ EndpointsKept(volume_bins_result.volume_bins_breath_dictionary[i].Exp_Vol,
                             volume_bins_result.volume_bins_breath_dictionary[i].Exp_Flow,
                             time_bins_result.original_exp_data_breath_dictionary[i],
                             intervals)

\* |x[a] - x[b]| for 0-based a and b
Excursion(x, a, b) == RAbs(RSub(x[a + 1], x[b + 1]))

\* C5: after the normalization of the time scheme every breath has the
\* inspiratory excursion |Insp_Vol[0] - Insp_Vol[K]| = mean(Vt_Insp) and the
\* expiratory excursion |Exp_Vol[K] - Exp_Vol[0]| = mean(Vt_Exp), and the
\* average inspiratory volume of bin K, Mean_shift added back, is Mean_shift.
C5_NormalizationFixedPoint ==
    TimeBinsReturned =>
        /\ \A i \in 1..number_of_breaths :
              /\ Excursion(time_bins_result.time_bins_breath_dictionary[i].Insp_Vol,
                           0, intervals) = Mean(time_bins_result.Vt_Insp_list)
              /\ Excursion(time_bins_result.time_bins_breath_dictionary[i].Exp_Vol,
                           intervals, 0) = Mean(time_bins_result.Vt_Exp_list)
        /\ time_bins_result.Avg_Insp_Vt = Mean(time_bins_result.Vt_Insp_list)
        /\ time_bins_result.Avg_Exp_Vt = Mean(time_bins_result.Vt_Exp_list)
        /\ time_bins_result.avg_insp_vol_tbin[intervals + 1] = time_bins_result.Mean_shift

\* two breaths of different depth have been normalized
C5_Witness ==
    /\ TimeBinsReturned
    /\ number_of_breaths = 2
    /\ intervals >= 2
    /\ time_bins_result.Vt_Insp_list[1] # time_bins_result.Vt_Insp_list[2]
    /\ time_bins_result.Vt_Exp_list[1] # time_bins_result.Vt_Exp_list[2]

StrictlyDecreasing(x) == \A j \in 1..(Len(x) - 1) : RLt(x[j + 1], x[j])
StrictlyIncreasing(x) == \A j \in 1..(Len(x) - 1) : RLt(x[j], x[j + 1])

\* C6: in the volume scheme the targets Insp_Vol[0..K] of every breath are
\* strictly decreasing and Exp_Vol[0..K] strictly increasing, with
\* |Insp_Vol[K] - Insp_Vol[0]| = Vt_Insp[i] and
\* |Exp_Vol[K] - Exp_Vol[0]| = Vt_Exp[i].
C6_VolumeTargets ==
    VolumeBinsReturned =>
        \A i \in 1..number_of_breaths :
            /\ StrictlyDecreasing(volume_bins_result.volume_bins_breath_dictionary[i].Insp_Vol)
            /\ StrictlyIncreasing(volume_bins_result.volume_bins_breath_dictionary[i].Exp_Vol)
            /\ Excursion(volume_bins_result.volume_bins_breath_dictionary[i].Insp_Vol,
                         intervals, 0) = time_bins_result.Vt_Insp_list[i]
            /\ Excursion(volume_bins_result.volume_bins_breath_dictionary[i].Exp_Vol,
                         intervals, 0) = time_bins_result.Vt_Exp_list[i]

\* two breaths have been resampled on volume targets
C6_Witness ==
    /\ VolumeBinsReturned
    /\ number_of_breaths = 2
    /\ intervals >= 2

(***************************************************************************)
(* The 16-sample scenario recording.                                       *)
(***************************************************************************)
\* the run is on the recording -1 x4, 1 x4, -1 x4, 1 x4 with time step 1
IsScenario ==
    /\ flow_raw_list = FlowOfRuns(ScenarioRuns, -1)
    /\ time_raw_list = TimeOf(flow_raw_list, Q(1))
    /\ vol_raw_list = VolOfRuns(ScenarioRuns, -1, Q(1))

\* trim_excess_data has run, with or without an exception
TrimRan == pc \notin {"idle", "read", "zeroed"}

DigitRuns(s) ==
    {r \in (1..Len(s)) \X (1..Len(s)) :
        /\ r[1] <= r[2]
        /\ \A k \in r[1]..r[2] : IsDigit(s[k])
        /\ (r[1] = 1 \/ ~IsDigit(s[r[1] - 1]))
        /\ (r[2] = Len(s) \/ ~IsDigit(s[r[2] + 1]))}

\* the first run of 2 to 7 digits of s, <<>> when there is none
FirstDigitRun(s) ==
    LET runs == {r \in DigitRuns(s) : r[2] - r[1] + 1 \in MinDigits..MaxDigits}
        first == CHOOSE r \in runs : \A q \in runs : r[1] <= q[1]
    IN  IF runs = {} THEN <<>> ELSE SubSeq(s, first[1], first[2])

\* C9: extract_subject_id returns the first run of 2 to 7 digits of the
\* base name without its extension, and the empty string when there is
\* none; it returns "12345" for "patient_12345_run2.xlsx" and "" for
\* "abc.xlsx".
C9_FirstDigitRun ==
    id_pc = "done" =>
        /\ subject_id = FirstDigitRun(splitext_root(basename(filename)))
        /\ filename = PatientFile => subject_id = <<"1", "2", "3", "4", "5">>
        /\ filename = AbcFile => subject_id = <<>>


(***************************************************************************)
(* The TLC values of the consolidator.                                     *)
(***************************************************************************)
\* every TLC of the dictionary is above 0
PositiveTLC(dict) == \A f \in DOMAIN dict : IsPos(dict[f])

\* every subject of the list has a TLC above 0 and finite percent-of-TLC
\* volumes
PositiveSubjects(subjects) ==
    \A k \in 1..Len(subjects) :
        /\ IsPos(subjects[k].tlc)
        /\ \A j \in 1..Len(subjects[k].vol) : IsFinite(subjects[k].vol[j])

\* no TLC that is zero or negative is kept by the window, given to the
\* worker thread or used in an output workbook
TLCValuesPositive ==
    /\ PositiveTLC(tlc_values)
    /\ PositiveTLC(thread.tlc_values)
    /\ PositiveSubjects(thread.processed_dfs)
    /\ \A path \in DOMAIN written : PositiveSubjects(written[path])

\* the text is a number that is not above 0
NonPositive(text) == float(text).ok /\ ~IsPos(float(text).value)

\* whatever the entries of the open dialog hold, apply_values ends in an
\* error and without a result when one of them is a number not above 0
DialogRejectsNonPositive ==
    tlc_dialog.open =>
        \A typed \in [DOMAIN tlc_dialog.tlc_entries -> TLCEntries] :
            (\E f \in DOMAIN typed : NonPositive(typed[f])) =>
                \E r \in {apply_values(tlc_dialog.file_paths, typed)} :
                    /\ r.has_error
                    /\ r.message.call = "showerror"
                    /\ r.result = EmptyDict

\* a step that shows the error of a TLC not above 0 stores no TLC and
\* leaves the dialog open
NonPositiveRejected ==
    (messagebox' # messagebox /\ messagebox'.message = "TLC must be a positive number")
        => /\ tlc_values' = tlc_values
           /\ tlc_dialog.open /\ tlc_dialog' = tlc_dialog
           /\ thread' = thread /\ written' = written

\* C10: a TLC that is zero or negative is rejected: an Apply on entries
\* holding such a number shows an error, stores nothing and leaves the
\* dialog open, and the consolidator (process_files, read_excel_file) never
\* produces percent-of-TLC output for a subject whose TLC is not above 0.
C10_NonPositiveTLCRejected ==
    /\ [](TLCValuesPositive /\ DialogRejectsNonPositive)
    /\ [][NonPositiveRejected]_vars

\* Apply has refused an entry not above 0 while an earlier TLC is kept and
\* an output workbook has been written
C10_Witness ==
    /\ tlc_dialog.open
    /\ messagebox.message = "TLC must be a positive number"
    /\ tlc_values # EmptyDict
    /\ written # EmptyDict

(***************************************************************************)
(* The loop of process_files.                                              *)
(***************************************************************************)
\* the file cannot be processed by the worker thread: it has no TLC entry,
\* or its sheet cannot be read with the four columns
FileFails(file_path) ==
    file_path \notin DOMAIN thread.tlc_values \/ ~SheetOf(file_path).found

\* the first n files of the worker thread's list
Turned(n) == SubSeq(thread.selected_files, 1, n)

\* the names of the files of the list, in its order
FileNamesOf(list) == [k \in 1..Len(list) |-> basename(list[k])]

\* the entries of failed_files for the files that could not be read
Unread == SelectSeq(thread.failed_files, LAMBDA e : e.error # WriteError)

\* after every turn of the loop the files that failed so far are the
\* entries of failed_files, and the other files are all kept, in the order
\* of the list, with the data read from them
LoopKeepsGoing ==
    thread.pc = "running" =>
        /\ thread.i <= Len(thread.selected_files)
        /\ [k \in 1..Len(Unread) |-> Unread[k].filename]
              = FileNamesOf(SelectSeq(Turned(thread.i), FileFails))
        /\ thread.successful_files
              = FileNamesOf(SelectSeq(Turned(thread.i), LAMBDA f : ~FileFails(f)))
        /\ [k \in 1..Len(thread.processed_dfs) |-> thread.processed_dfs[k].file]
              = SelectSeq(Turned(thread.i), LAMBDA f : ~FileFails(f))
        /\ \A k \in 1..Len(thread.processed_dfs) :
              \E p \in {thread.processed_dfs[k]} :
              \E r \in {read_excel_file(p.file, thread.tlc_values[p.file], p.subject_id)} :
                 /\ p.tlc = thread.tlc_values[p.file]
                 /\ p.vol = r.insp_vol \o r.exp_vol
                 /\ p.flow = r.insp_flow \o r.exp_flow

\* the loop ends only after the last file of the list, and the two lists of
\* the result are those the loop has built
LoopEndsAtLast ==
    (thread.pc = "running" /\ thread'.pc # "running") =>
        /\ thread.i = Len(thread.selected_files)
        /\ thread'.pc = "returned"
        /\ thread'.failed_files = thread.failed_files
        /\ thread'.successful_files = thread.successful_files

\* C11: in process_files a file that cannot be read or has no TLC entry
\* fails alone: it is recorded in failed_files, every later file of
\* selected_files is still processed, and what is kept for the other files
\* is what was read from them.
C11_FailureIsPerFile == []LoopKeepsGoing /\ [][LoopEndsAtLast]_vars

\* the first file of the list has failed and a later one has been read
C11_Witness ==
    /\ thread.pc = "running"
    /\ thread.i >= 2
    /\ FileFails(thread.selected_files[1])
    /\ thread.failed_files # <<>>
    /\ thread.processed_dfs # <<>>

(***************************************************************************)
(* The consolidated workbook.                                              *)
(***************************************************************************)
\* create_horizontal_layout_output has returned
LayoutDone == layout_pc = "done"

\* the columns of the table with the given title
ColumnsTitled(title) ==
    SelectSeq(workbook.combined_data, LAMBDA col : col.name.title = title)

\* the TLC values of the files that were read
ReadTLCs == AllTLCValues(layout.selected_files, layout.processed_dfs)

\* C12: the consolidated table holds a 'Vol % TLC <id>' and a 'Flow <id>'
\* column for every file that was read, 2n columns for n such files,
\* whatever their subject IDs are.
C12_TwoColumnsPerSubject ==
    LayoutDone =>
        /\ Len(workbook.combined_data) = 2 * Cardinality(DOMAIN layout.processed_dfs)
        /\ Len(ColumnsTitled("Vol % TLC")) = Cardinality(DOMAIN layout.processed_dfs)
        /\ Len(ColumnsTitled("Flow")) = Cardinality(DOMAIN layout.processed_dfs)

\* the entries of the absolute volume columns are those of the table's
\* 'Vol % TLC' columns times the factor over 100, its other columns are the
\* flow columns, and the empty cells stay empty
AbsoluteBy(factor) ==
    /\ Len(workbook.absolute_data) = Len(workbook.combined_data)
    /\ \A k \in 1..Len(workbook.combined_data) :
          \E col \in {workbook.combined_data[k]} :
          \E abs \in {workbook.absolute_data[k]} :
             /\ abs.name.id = col.name.id
             /\ Len(abs.values) = Len(col.values)
             /\ IF col.name.title = "Vol % TLC"
                THEN /\ abs.name.title = "Absolute Vol"
                     /\ \A j \in 1..Len(col.values) :
                           IF col.values[j] = Blank THEN abs.values[j] = Blank
                           ELSE RMul(abs.values[j], Hundred) = RMul(col.values[j], factor)
                ELSE abs = col

\* two files were read, with TLC 6.0 and 8.0, into columns of their own;
\* the second row of the sheets holds the volume 3.0
ExampleTLCs == ReadTLCs = <<Q(6), Q(8)>> /\ Len(workbook.combined_data) = 4

\* C13 as stated: the factor of the absolute volumes is exactly the mean of
\* the TLC values of the files read, and TLCs 6.0 and 8.0 with volume 3.0
\* give the absolute volumes 3.0 and 2.625.
C13_FactorIsExactMean ==
    LayoutDone =>
        /\ AbsoluteBy(Mean(ReadTLCs))
        /\ ExampleTLCs =>
              /\ workbook.absolute_data[1].values[2] = Q(3)
              /\ workbook.absolute_data[3].values[2] = Norm(2625, 1000)

\* C13: the factor of the absolute volumes is the average TLC written to the
\* workbook: the multiple of 0.01 nearest to the mean of the TLC values of
\* the files read; each absolute volume is Vol%TLC times it over 100, and
\* TLCs 6.0 and 8.0 with volume 3.0 give the factor 7.0 and the absolute
\* volumes 3.5 and 2.625.
C13_FactorIsRoundedMean ==
    LayoutDone =>
        /\ RMul(workbook.avg_tlc, Hundred)[2] = 1
        /\ ~RLt(RDiv(Half, Hundred), RAbs(RSub(workbook.avg_tlc, Mean(ReadTLCs))))
        /\ AbsoluteBy(workbook.avg_tlc)
        /\ ExampleTLCs =>
              /\ workbook.avg_tlc = Q(7)
              /\ workbook.absolute_data[1].values[2] = Norm(7, 2)
              /\ workbook.absolute_data[3].values[2] = Norm(2625, 1000)

\* the mean of the TLC values is no multiple of 0.01 and absolute volumes
\* have been computed with the rounded one
C13_Witness ==
    /\ LayoutDone
    /\ workbook.avg_tlc # Mean(ReadTLCs)
    /\ \E k \in 1..Len(workbook.absolute_data) :
          /\ workbook.absolute_data[k].name.title = "Absolute Vol"
          /\ workbook.absolute_data[k].values[2] # Blank

(***************************************************************************)
(* The Data Formatter.                                                     *)
(***************************************************************************)
\* the step that ends convert_unedited_file
Returns == convert_pc = "scan" /\ convert_pc' = "done"

\* a list followed by NaN up to a length
PaddedTo(values, length) ==
    [k \in 1..length |-> IF k <= Len(values) THEN values[k] ELSE NaN]

\* C14: convert_unedited_file returns Time, Vol and Flow columns of the
\* length N of the longer of the two lists collected: the shorter list is
\* followed by NaN up to N, the longer one is as collected, and the k-th
\* time (from 1) is k hundredths.
C14_ColumnsOfEqualLength ==
    [][Returns =>
         \E N \in {IF Len(flow_values) >= Len(volume_values)
                   THEN Len(flow_values) ELSE Len(volume_values)} :
            /\ Len(processed_data'.Time) = N
            /\ Len(processed_data'.Vol) = N
            /\ Len(processed_data'.Flow) = N
            /\ processed_data'.Flow = PaddedTo(flow_values, N)
            /\ processed_data'.Vol = PaddedTo(volume_values, N)
            /\ \A k \in 1..N : processed_data'.Time[k] = Norm(k, 100)]_vars

\* the call has returned columns of two rows or more, with a volume list
\* that was collected shorter than the flow list, but not empty
C14_Witness ==
    /\ convert_pc = "done"
    /\ Len(processed_data.Time) >= 2
    /\ ~IsNull(processed_data.Vol[1])
    /\ IsNull(Last(processed_data.Vol))
    /\ ~IsNull(Last(processed_data.Flow))

\* the cell is blank
BlankCell(cell) == FirstColumn(cell) = <<>>

\* the run the rows of a sheet hold for a marker: it begins at the first
\* marker cell, the cell after the marker is skipped, and the numbers of
\* the cells from there to the first blank cell are the run
RunOf(sheet, Marker(_)) ==
    IF \A k \in 1..Len(sheet) : ~Marker(FirstColumn(sheet[k])) THEN <<>>
    ELSE LET first == Min({k \in 1..Len(sheet) : Marker(FirstColumn(sheet[k]))})
             blanks == {k \in (first + 2)..Len(sheet) : BlankCell(sheet[k])}
             last == IF blanks = {} THEN Len(sheet) ELSE Min(blanks) - 1
             cells == SelectSeq(SubSeq(sheet, first + 2, last),
                                LAMBDA cell : float(FirstColumn(cell)).ok)
         IN  [k \in 1..Len(cells) |-> float(FirstColumn(cells[k])).value]

\* C15: at every row of the scan the flow list is the run begun by the
\* first cell containing 'ltr/s' and the volume list the run begun by the
\* first cell equal to 'ltr': the cell after the marker is skipped, the run
\* ends at the first blank cell, and nothing is added to it afterwards.
C15_RunsOfFirstMarkers ==
    convert_pc = "scan" =>
        /\ flow_values = RunOf(SubSeq(ws, 1, row), FlowMarker)
        /\ volume_values = RunOf(SubSeq(ws, 1, row), VolumeMarker)

(***************************************************************************)
(* Resampling with a single interval.                                      *)
(***************************************************************************)
\* the two lists hold the first and the last sample of the phase, and
\* nothing else
TwoEndpoints(vols, flows, ph) ==
    /\ vols = <<ph.Vol[1], Last(ph.Vol)>>
    /\ flows = <<ph.Flow[1], Last(ph.Flow)>>

\* the inner loop of the time scheme reads Time[l + 1] past the end of the
\* phase for the target A, and its except branch appends
TimeFallback(ph, A) ==
    /\ A # Zero
    /\ TimeHit(ph.Time, A) = 0
    /\ A # Last(ph.Time)
    /\ RLt(Last(ph.Time), A)

\* the same for the volume scheme
VolumeFallback(ph, A, dir) ==
    /\ A # ph.Vol[1]
    /\ A # Last(ph.Vol)
    /\ VolumeHit(ph.Vol, A, dir) = 0
    /\ PastLast(ph.Vol, A, dir)

\* C16: with intervals = 1 every resampled list of both schemes has exactly
\* two entries, the first and the last sample of the phase, and no target
\* makes the inner loop read past the end of the phase and take its
\* IndexError branch.
C16_SingleInterval ==
    intervals = 1 =>
        /\ TimeBinsReturned =>
             \A i \in 1..number_of_breaths :
                \E insp \in {time_bins_result.original_insp_data_breath_dictionary[i]} :
                \E exp \in {time_bins_result.original_exp_data_breath_dictionary[i]} :
                \E bin \in {time_bins_result.time_bin_copy[i]} :
                   /\ TwoEndpoints(bin.Insp_Vol, bin.Insp_Flow, insp)
                   /\ TwoEndpoints(bin.Exp_Vol, bin.Exp_Flow, exp)
                   /\ \A k \in 1..Len(bin.Insp_Time) : ~TimeFallback(insp, bin.Insp_Time[k])
                   /\ \A k \in 1..Len(bin.Exp_Time) : ~TimeFallback(exp, bin.Exp_Time[k])
        /\ VolumeBinsReturned =>
             \A i \in 1..number_of_breaths :
                \E insp \in {time_bins_result.original_insp_data_breath_dictionary[i]} :
                \E exp \in {time_bins_result.original_exp_data_breath_dictionary[i]} :
                \E bin \in {volume_bins_result.volume_bins_breath_dictionary[i]} :
                   /\ TwoEndpoints(bin.Insp_Vol, bin.Insp_Flow, insp)
                   /\ TwoEndpoints(bin.Exp_Vol, bin.Exp_Flow, exp)
                   /\ \A k \in 1..Len(bin.Insp_Vol) : ~VolumeFallback(insp, bin.Insp_Vol[k], -1)
                   /\ \A k \in 1..Len(bin.Exp_Vol) : ~VolumeFallback(exp, bin.Exp_Vol[k], 1)

(***************************************************************************)
(* The iterations of find_zero_flow_points.                                *)
(***************************************************************************)
\* find_zero_flow_points has returned and trim_excess_data has not run
Zeroed == pc = "zeroed"

\* the number of samples of the recording
N == Len(flow_raw_list)

\* the flow changes sign between the samples i and i + 1
SignChange(i) ==
    \/ At(flow_raw_list, i) < 0 /\ 0 < At(flow_raw_list, i + 1)
    \/ At(flow_raw_list, i) > 0 /\ 0 > At(flow_raw_list, i + 1)

\* the sum of the terms flow[i - j], j = 41..60, in which a term whose
\* index is below 0 counts as 0
ZeroFilledSum(i) ==
    ISumTo([k \in 1..(BackFar - BackNear + 1) |->
               IF i - (BackNear + k - 1) >= 0
               THEN At(flow_raw_list, i - (BackNear + k - 1)) ELSE 0],
           BackFar - BackNear + 1)

\* C17: at a sign change at i < 60 whose forward window is within the
\* recording, the backward check is the sum of the terms flow[i - j],
\* j = 41..60, with 0 for every term whose index is below 0, divided by 20.
C17_BackwardZeroFill ==
    Zeroed =>
        \A i \in 0..(N - 2) :
           (i < BackFar /\ SignChange(i) /\ ~ForwardOverrun(flow_raw_list, i))
              => BackTrack(flow_raw_list, i) = Norm(ZeroFilledSum(i), 20)

\* the place in the returned lists (from 1) of what iteration i appends
\* first: every validated crossing before i has appended two entries more
PlaceOf(i) ==
    i + 1 + 2 * Cardinality({c \in Crossings(flow_raw_list) : c < i})

\* the entry of the returned lists at a place
ZeroedAt(place) ==
    <<zeroed_time_list[place], zeroed_vol_list[place], zeroed_flow_list[place]>>

\* the sample i of the recording
SampleAt(i) ==
    <<At(time_raw_list, i), At(vol_raw_list, i), Q(At(flow_raw_list, i))>>

\* the validated crossings in increasing order, after 0 - 1
CrossingList ==
    [k \in 0..Cardinality(Crossings(flow_raw_list)) |->
        IF k = 0 THEN -1
        ELSE CHOOSE c \in Crossings(flow_raw_list) :
                Cardinality({b \in Crossings(flow_raw_list) : b < c}) = k - 1]

\* C18: every iteration i <= N - 2 that validates no crossing appends the
\* sample i itself and adds 1 to the length of the open phase, and the last
\* iteration appends the last sample.
C18_PlainIsVerbatim ==
    Zeroed =>
        /\ \A i \in 0..(N - 1) :
              i \notin Crossings(flow_raw_list) => ZeroedAt(PlaceOf(i)) = SampleAt(i)
        /\ Len(phase_indexes_list) = Cardinality(Crossings(flow_raw_list))
        /\ \A k \in 1..Len(phase_indexes_list) :
              phase_indexes_list[k] =
                  (IF k = 1 THEN 0 ELSE 1)
                  + (CrossingList[k] - CrossingList[k - 1] - 1) + 2

\* t[i] + (0 - f[i]) (t[i + 1] - t[i]) / (f[i + 1] - f[i])
ZeroFlowTime(i) ==
    RAdd(At(time_raw_list, i),
         RDiv(RMul(Q(0 - At(flow_raw_list, i)),
                   RSub(At(time_raw_list, i + 1), At(time_raw_list, i))),
              Q(At(flow_raw_list, i + 1) - At(flow_raw_list, i))))

\* the synthetic point of the crossing at i: 0.001 below the lower of the
\* two volumes when the flow turns positive, 0.001 above the higher one
\* when it turns negative
ZeroFlowPoint(i) ==
    <<ZeroFlowTime(i),
      IF At(flow_raw_list, i) < 0
      THEN RSub(RMin(At(vol_raw_list, i), At(vol_raw_list, i + 1)), <<1, 1000>>)
      ELSE RAdd(RMax(At(vol_raw_list, i), At(vol_raw_list, i + 1)), <<1, 1000>>),
      Zero>>

\* C19: every validated crossing at i appends the sample i and then twice
\* the synthetic point of flow 0, and nothing else: the sample i + 1 is
\* left to the next iteration.
C19_CrossingAppendsThree ==
    Zeroed =>
        /\ Len(zeroed_flow_list) = N + 2 * Cardinality(Crossings(flow_raw_list))
        /\ Len(zeroed_time_list) = Len(zeroed_flow_list)
        /\ Len(zeroed_vol_list) = Len(zeroed_flow_list)
        /\ \A i \in Crossings(flow_raw_list) :
              /\ SignChange(i)
              /\ ZeroedAt(PlaceOf(i)) = SampleAt(i)
              /\ ZeroedAt(PlaceOf(i) + 1) = ZeroFlowPoint(i)
              /\ ZeroedAt(PlaceOf(i) + 2) = ZeroFlowPoint(i)
              /\ PlaceOf(i + 1) = PlaceOf(i) + 3

\* a crossing of each direction has been validated
C19_Witness ==
    /\ Zeroed
    /\ \E i, j \in Crossings(flow_raw_list) :
          At(flow_raw_list, i) < 0 /\ At(flow_raw_list, j) > 0

(***************************************************************************)
(* The phase list after the leading trim.                                  *)
(***************************************************************************)
\* the phase list find_zero_flow_points returned
DetectedPhases ==
    find_zero_flow_points(time_raw_list, vol_raw_list, flow_raw_list).pl

\* C20: trim_excess_data drops the first entry of the phase list, and the
\* second one as well whenever counter_start is 2 or more; it drops no
\* more than two leading entries.
C20_LeadingEntriesDropped ==
    Trimmed =>
        \E drops \in {IF RLt(counter_start, Q(2)) THEN 1 ELSE 2} :
           phase_indexes_list =
               DropTrailing(SubSeq(DetectedPhases, drops + 1, Len(DetectedPhases)),
                            counter_end)

(***************************************************************************)
(* The head of the lists after the leading trim.                           *)
(***************************************************************************)
\* the leading loop of trim_excess_data ends at its break
LeadingTerminates ==
    /\ Zeroed
    /\ LeadHalts(zeroed_flow_list) # {}
    /\ Min(LeadHalts(zeroed_flow_list)) + 2 < Len(zeroed_flow_list)

\* the index at which the leading loop breaks
LeadStop == Min(LeadHalts(zeroed_flow_list))

\* the entry at a place (from 1) of the lists the leading loop leaves
LeadingAt(place) ==
    <<LeadingTrimmed(zeroed_time_list, LeadStop)[place],
      LeadingTrimmed(zeroed_vol_list, LeadStop)[place],
      LeadingTrimmed(zeroed_flow_list, LeadStop)[place]>>

\* the entry is one of the recorded samples
Recorded(entry) == \E i \in 0..(N - 1) : entry = SampleAt(i)

C == Cardinality(Crossings(flow_raw_list))

\* C22: any two consecutive validated crossings have opposite directions:
\* the flow before one of them is negative and before the other positive.
C22_CrossingsAlternate ==
    Zeroed =>
        \A k \in 1..(C - 1) :
           (At(flow_raw_list, CrossingList[k]) < 0)
               # (At(flow_raw_list, CrossingList[k + 1]) < 0)

(***************************************************************************)
(* The lengths of the returned lists and the sums of the phase lengths.    *)
(***************************************************************************)
\* C25: a recording of N >= 1 samples with C validated crossings gives
\* lists of N + 2 C entries each and a phase list of C entries, and the sum
\* of the first k phase lengths is the place (from 1) of the first
\* synthetic point of the k-th validated crossing, which follows the
\* sample before the crossing.
C25_LengthsAndPhaseSums ==
    Zeroed =>
        /\ N >= 1
        /\ Len(zeroed_time_list) = N + 2 * C
        /\ Len(zeroed_vol_list) = N + 2 * C
        /\ Len(zeroed_flow_list) = N + 2 * C
        /\ Len(phase_indexes_list) = C
        /\ \A k \in 1..C :
              /\ ISumTo(phase_indexes_list, k) = PlaceOf(CrossingList[k]) + 1
              /\ ZeroedAt(ISumTo(phase_indexes_list, k))
                     = ZeroFlowPoint(CrossingList[k])
              /\ ZeroedAt(ISumTo(phase_indexes_list, k) - 1)
                     = SampleAt(CrossingList[k])

\* a recording with three validated crossings or more
C25_Witness == Zeroed /\ C >= 3

(***************************************************************************)
(* The trailing trim after a leading trim that ended at its break.         *)
(***************************************************************************)
\* the flow list the leading loop leaves
LeadingFlow == LeadingTrimmed(zeroed_flow_list, LeadStop)

\* the lists the trailing loop leaves when it ends at its break: the three
\* delete_row calls remove the last three entries it stopped at
TrailingAt(place) ==
    <<LeadingTrimmed(zeroed_time_list, LeadStop)[place],
      LeadingTrimmed(zeroed_vol_list, LeadStop)[place],
      LeadingFlow[place]>>

\* the number of entries the trailing loop leaves
TrailingLength == Max(TailHalts(LeadingFlow)) - 3

\* C26: when the leading loop ends at its break, the trailing loop ends at
\* its break too, without IndexError, and the last element of the list it
\* leaves is a synthetic zero-flow point.
C26_TrailingEndsAtZeroPoint ==
    LeadingTerminates =>
        /\ TailHalts(LeadingFlow) # {}
        /\ TrailingLength >= 1
        /\ \E c \in Crossings(flow_raw_list) :
              TrailingAt(TrailingLength) = ZeroFlowPoint(c)

(***************************************************************************)
(* What the worker thread reads while the window is in use.                *)
(***************************************************************************)
\* the list and the two dictionaries the worker thread reads
WorkerInputs(t) == <<t.selected_files, t.tlc_values, t.subject_ids>>

\* C24: while the worker thread runs, no step changes the files, the TLC
\* values or the subject IDs it iterates over and reads: they stay those
\* selected when it was started.
C24_WorkerInputsFrozen ==
    [][(thread.pc = "running" /\ thread'.pc = "running")
          => WorkerInputs(thread') = WorkerInputs(thread)]_vars

(***************************************************************************)
(* The two lists of the result of process_files.                           *)
(***************************************************************************)
\* the file names of the entries of failed_files
FailedNames(t) == {t.failed_files[k].filename : k \in 1..Len(t.failed_files)}

\* the file names of successful_files
SuccessfulNames(t) == {t.successful_files[k] : k \in 1..Len(t.successful_files)}

\* C27: when process_files returns, every file of the list is in exactly
\* one of successful_files and failed_files, and the two lengths add up to
\* the length of the list.
C27_ExactlyOneList ==
    [][(thread.pc = "running" /\ thread'.pc = "returned") =>
          /\ Len(thread'.successful_files) + Len(thread'.failed_files)
                = Len(thread.selected_files)
          /\ SuccessfulNames(thread') \cap FailedNames(thread') = {}
          /\ SuccessfulNames(thread') \cup FailedNames(thread')
                = {basename(thread.selected_files[k]) :
                      k \in 1..Len(thread.selected_files)}]_vars

(***************************************************************************)
(* The output file of a run of process_fvavg that is aborted.              *)
(***************************************************************************)
\* the sheets of the file once Zeroed_Raw_Data is written
AugmentedOnly == <<Sheet("Sheet", 0 - 1), Sheet("Zeroed_Raw_Data", 0 - 1)>>

\* the lists find_zero_flow_points returns for the recording
Augmented ==
    find_zero_flow_points(time_raw_list, vol_raw_list, flow_raw_list)

\* the file holds the augmented data and no sheet of the results
HoldsAugmentedOnly ==
    /\ output_workbook.sheets = AugmentedOnly
    /\ output_workbook.Zeroed_Raw_Data.Time = Augmented.t
    /\ output_workbook.Zeroed_Raw_Data.Vol = Augmented.v
    /\ output_workbook.Zeroed_Raw_Data.Flow = Augmented.f

\* from the trimming to the end of both schemes, and in a run that was
\* aborted, the file holds the augmented data only and nothing is returned
AbortLeavesAugmented ==
    pc \in {"zeroed", "trimmed", "time_bins", "volume_bins", "failed"} =>
        HoldsAugmentedOnly /\ results = None

\* no step removes a sheet from the file or changes the augmented data
NeverRolledBack ==
    /\ Len(output_workbook'.sheets) >= Len(output_workbook.sheets)
    /\ SubSeq(output_workbook'.sheets, 1, Len(output_workbook.sheets))
          = output_workbook.sheets
    /\ output_workbook.Zeroed_Raw_Data # None
          => output_workbook'.Zeroed_Raw_Data = output_workbook.Zeroed_Raw_Data

\* C28: process_fvavg creates the output workbook and writes
\* Zeroed_Raw_Data before trimming and never rolls it back: a run aborted
\* at or after the trimming leaves the file with the augmented data and
\* without any sheet of the breaths, comparisons or averages, and returns
\* no results.
C28_AugmentedDataSurvivesAbort ==
    []AbortLeavesAugmented /\ [][NeverRolledBack]_vars

\* a run aborted after the trimming had changed the lists in place
C28_Witness ==
    /\ pc = "failed"
    /\ zeroed_flow_list # output_workbook.Zeroed_Raw_Data.Flow
    /\ output_workbook.Zeroed_Raw_Data.Flow # <<>>

(***************************************************************************)
(* The two runs collected by convert_unedited_file.                        *)
(***************************************************************************)
\* a row of the scan appends to the list
Grows(values, values_after) == Len(values_after) > Len(values)

\* C29: no cell is appended to both the flow run and the volume run, and
\* at every row at most one of the two runs is collecting.
C29_OneRunAtATime ==
    /\ [](convert_pc = "scan" =>
             ~(start_collecting_flow /\ start_collecting_volume))
    /\ [][(convert_pc = "scan" /\ convert_pc' = "scan") =>
             ~(Grows(flow_values, flow_values')
                  /\ Grows(volume_values, volume_values'))]_vars

(***************************************************************************)
(* What the normalization of the time scheme leaves alone.                 *)
(***************************************************************************)
\* both schemes have run
BothSchemesDone == pc = "volume_bins"

\* the breaths peeled off the trimmed lists, which process_time_bins is
\* given as copies
TrimmedBreaths ==
    PeelBreaths(zeroed_time_list, zeroed_vol_list, zeroed_flow_list,
                phase_indexes_list, 0, number_of_breaths).breaths

\* the mean over the breaths of entry j of a list of every breath
PlainMean(bins, field, j) ==
    Mean([i \in 1..Len(bins) |-> bins[i][field][j]])

\* the volume-scheme lists of a breath computed from its samples
PlainVolumeBins(b) ==
    BreathVolumeBins(b.insp, b.exp, TidalVolume(b.insp), TidalVolume(b.exp),
                     intervals).bins

\* C23: the normalization and Mean_shift change the volumes of the time
\* scheme only: its time and flow lists, time_bin_copy, the samples of the
\* breaths and every list and mean of the volume scheme are those computed
\* without normalization, and Mean_shift is added to the mean volumes of
\* the time scheme and to no other mean.
C23_OnlyTimeVolumesNormalized ==
    BothSchemesDone =>
        \E bs \in {TrimmedBreaths} :
        \E plain \in {[i \in 1..number_of_breaths |->
                          BreathTimeBins(bs[i], intervals)]} :
        \E tb \in {time_bins_result.time_bins_breath_dictionary} :
        \E vb \in {volume_bins_result.volume_bins_breath_dictionary} :
           /\ time_bins_result.time_bin_copy = plain
           /\ \A i \in 1..number_of_breaths :
                 /\ tb[i].Insp_Time = plain[i].Insp_Time
                 /\ tb[i].Exp_Time = plain[i].Exp_Time
                 /\ tb[i].Insp_Flow = plain[i].Insp_Flow
                 /\ tb[i].Exp_Flow = plain[i].Exp_Flow
                 /\ time_bins_result.original_insp_data_breath_dictionary[i]
                       = bs[i].insp
                 /\ time_bins_result.original_exp_data_breath_dictionary[i]
                       = bs[i].exp
                 /\ vb[i] = PlainVolumeBins(bs[i])
           /\ \A j \in 1..(intervals + 1) :
                 /\ time_bins_result.avg_insp_flow_tbin[j]
                       = PlainMean(plain, "Insp_Flow", j)
                 /\ time_bins_result.avg_exp_flow_tbin[j]
                       = PlainMean(plain, "Exp_Flow", j)
                 /\ time_bins_result.avg_insp_vol_tbin[j]
                       = RAdd(PlainMean(tb, "Insp_Vol", j),
                              time_bins_result.Mean_shift)
                 /\ time_bins_result.avg_exp_vol_tbin[j]
                       = RAdd(PlainMean(tb, "Exp_Vol", j),
                              time_bins_result.Mean_shift)
                 /\ volume_bins_result.avg_insp_vol_vbin[j]
                       = PlainMean(vb, "Insp_Vol", j)
                 /\ volume_bins_result.avg_exp_vol_vbin[j]
                       = PlainMean(vb, "Exp_Vol", j)
                 /\ volume_bins_result.avg_insp_flow_vbin[j]
                       = PlainMean(vb, "Insp_Flow", j)
                 /\ volume_bins_result.avg_exp_flow_vbin[j]
                       = PlainMean(vb, "Exp_Flow", j)

\* both schemes have run on a recording whose Mean_shift is not 0 and the
\* normalization has changed a volume list of the time scheme
C23_Witness ==
    /\ BothSchemesDone
    /\ time_bins_result.Mean_shift # Zero
    /\ \E i \in 1..number_of_breaths :
          time_bins_result.time_bins_breath_dictionary[i].Insp_Vol
              # time_bins_result.time_bin_copy[i].Insp_Vol

(***************************************************************************)
(* One flow value per target of the volume scheme.                         *)
(***************************************************************************)
\* the phases the volume scheme resamples, each with its direction and its
\* tidal volume
VolumePhases ==
    {[ph |-> time_bins_result.original_insp_data_breath_dictionary[i],
      dir |-> 0 - 1, Vt |-> time_bins_result.Vt_Insp_list[i]] :
        i \in 1..number_of_breaths}
    \cup {[ph |-> time_bins_result.original_exp_data_breath_dictionary[i],
           dir |-> 1, Vt |-> time_bins_result.Vt_Exp_list[i]] :
        i \in 1..number_of_breaths}

\* the last volume of the phase is strictly below (inspiration) or
\* strictly above (expiration) its first volume
NetExcursion(p) ==
    IF p.dir < 0 THEN RLt(Last(p.ph.Vol), p.ph.Vol[1])
    ELSE RLt(p.ph.Vol[1], Last(p.ph.Vol))

\* the segments or samples, in sample order, that bracket or equal A
Segments(p, A) ==
    {l \in 1..Len(p.ph.Vol) :
        p.ph.Vol[l] = A \/ VolumeBracket(p.ph.Vol, l, A, p.dir)}

\* f is the flow at volume A on the segment l: the flow of sample l when
\* its volume is A, and otherwise the flow that divides the segment as A
\* divides its volumes
OnSegment(p, l, A, f) ==
    IF p.ph.Vol[l] = A THEN f = p.ph.Flow[l]
    ELSE RMul(RSub(f, p.ph.Flow[l]), RSub(p.ph.Vol[l + 1], p.ph.Vol[l]))
            = RMul(RSub(p.ph.Flow[l + 1], p.ph.Flow[l]), RSub(A, p.ph.Vol[l]))

\* the scheme is about to resample the phases
TimeBinsDone == pc = "time_bins"

\* C30 as stated: for a phase with a net excursion every one of the K + 1
\* targets gets exactly one flow value, which comes from the first segment
\* in sample order that brackets or equals the target.
C30_FirstSegmentDecides ==
    TimeBinsDone =>
        \A p \in VolumePhases :
           NetExcursion(p) =>
              \E targets \in {VolumeIntervals(p.ph.Vol[1], p.Vt, intervals, p.dir)} :
              \E r \in {VolumeResample(p.ph, targets, p.dir)} :
                 /\ r.error = ""
                 /\ Len(r.Flow) = intervals + 1
                 /\ \A j \in 1..(intervals + 1) :
                       /\ Segments(p, targets[j]) # {}
                       /\ OnSegment(p, Min(Segments(p, targets[j])),
                                    targets[j], r.Flow[j])

\* C30: for a phase with a net excursion every one of the K + 1 targets
\* gets exactly one flow value: the flow of the last sample for a target
\* equal to the last volume, and otherwise the value from the first segment
\* in sample order that brackets or equals the target.
C30_OneValuePerTarget ==
    TimeBinsDone =>
        \A p \in VolumePhases :
           NetExcursion(p) =>
              \E targets \in {VolumeIntervals(p.ph.Vol[1], p.Vt, intervals, p.dir)} :
              \E r \in {VolumeResample(p.ph, targets, p.dir)} :
                 /\ r.error = ""
                 /\ Len(r.Flow) = intervals + 1
                 /\ \A j \in 1..(intervals + 1) :
                       IF targets[j] = Last(p.ph.Vol) /\ targets[j] # p.ph.Vol[1]
                       THEN r.Flow[j] = Last(p.ph.Flow)
                       ELSE /\ Segments(p, targets[j]) # {}
                            /\ OnSegment(p, Min(Segments(p, targets[j])),
                                         targets[j], r.Flow[j])

\* a phase with a net excursion whose volume is not monotone, with a target
\* that two segments bracket
C30_Witness ==
    /\ TimeBinsDone
    /\ \E p \in VolumePhases :
          /\ NetExcursion(p)
          /\ \E j \in 1..(intervals + 1) :
                Cardinality(Segments(p,
                    VolumeIntervals(p.ph.Vol[1], p.Vt, intervals, p.dir)[j])) >= 2

====
